---- MODULE Spec2Model ----
(***************************************************************************)
(* State-machine model of the webgpu-md compute pipeline: the Simulation   *)
(* orchestrator (step protocol, rebuild cadence), the velocity-Verlet      *)
(* integrator with displacement tracking, the Lennard-Jones pair kernel    *)
(* and the cell-list / neighbor-list kernels together with the host code   *)
(* that packs their parameter blocks.                                      *)
(*                                                                         *)
(* Number representation.  f32 quantities are exact integers on a grid:    *)
(* lengths in units of 1/GridPerUnit, time in units of the timestep dt,    *)
(* forces in the unit for which 0.5*dt*f/m is one velocity grid unit at    *)
(* m = 1.  f32 rounding is not modelled; every non-finite f32 (NaN, +-inf) *)
(* is the one value NaN, which propagates through arithmetic and makes     *)
(* every comparison false.  u32 quantities keep their width: a u32 is a    *)
(* pair <<hi, lo>> of 16-bit halves and arithmetic on it wraps modulo      *)
(* 2^32.  Storage buffers are 0-based flat arrays, as in WGSL.             *)
(***************************************************************************)
EXTENDS Integers, Sequences, FiniteSets, TLC

----------------------------------------------------------------------------
(* Bounds of the model *)

\* steps taken by one run of the orchestrator
MaxSteps == 9

\* grid points per 1/1000 length unit
SubGrid == 3

GridPerUnit == 1000 * SubGrid

----------------------------------------------------------------------------
(* Evaluation order *)

\* "let x = v in F(x)": v is computed once and F is applied to its value
Bind(v, F(_)) == CHOOSE r \in { F(x) : x \in {v} } : TRUE

----------------------------------------------------------------------------
(* f32 arithmetic on the grid *)

NaN == 0 - 2147483647

FAdd(a, b) == IF a = NaN \/ b = NaN THEN NaN ELSE a + b
FSub(a, b) == IF a = NaN \/ b = NaN THEN NaN ELSE a - b
FMul(a, b) == IF a = NaN \/ b = NaN THEN NaN ELSE a * b
FLt(a, b)  == a # NaN /\ b # NaN /\ a < b
FGt(a, b)  == a # NaN /\ b # NaN /\ a > b

----------------------------------------------------------------------------
(* u32 / i32 arithmetic as WGSL performs it *)

Two16 == 2 ^ 16

U32(n) == <<(n \div Two16) % Two16, n % Two16>>

ValU32(a) == a[1] * Two16 + a[2]

AddU32(a, b) ==
  IF a[1] = 0 /\ b[1] = 0 /\ a[2] + b[2] < Two16 THEN <<0, a[2] + b[2]>>
  ELSE <<(a[1] + b[1] + ((a[2] + b[2]) \div Two16)) % Two16,
         (a[2] + b[2]) % Two16>>

\* a - 1
DecU32(a) == IF a[2] > 0 THEN <<a[1], a[2] - 1>>
             ELSE <<(a[1] + Two16 - 1) % Two16, Two16 - 1>>

\* product modulo 2^32, by 8-bit limbs so that no partial product needs
\* more than 31 bits
MulU32(a, b) ==
  IF a = <<0, 0>> \/ b = <<0, 0>> THEN <<0, 0>>
  ELSE IF a = <<0, 1>> THEN b
  ELSE IF b = <<0, 1>> THEN a
  ELSE
    LET a0 == a[2] % 256  a1 == a[2] \div 256
        a2 == a[1] % 256  a3 == a[1] \div 256
        b0 == b[2] % 256  b1 == b[2] \div 256
        b2 == b[1] % 256  b3 == b[1] \div 256
        c0 == a0 * b0
        c1 == a0 * b1 + a1 * b0 + (c0 \div 256)
        c2 == a0 * b2 + a1 * b1 + a2 * b0 + (c1 \div 256)
        c3 == a0 * b3 + a1 * b2 + a2 * b1 + a3 * b0 + (c2 \div 256)
    IN  <<(c3 % 256) * 256 + (c2 % 256), (c1 % 256) * 256 + (c0 % 256)>>

LtU32(a, b) == a[1] < b[1] \/ (a[1] = b[1] /\ a[2] < b[2])

MinU32(a, b) == IF LtU32(b, a) THEN b ELSE a

\* u32 / n and u32 % n for a small divisor n (long division on the halves)
DivU32(a, n) ==
  LET r == a[1] % n
  IN  <<a[1] \div n, (r * Two16 + a[2]) \div n>>

ModU32(a, n) == ((a[1] % n) * Two16 + a[2]) % n

\* i32(u): reinterpretation of the bits as a signed integer
ToI32(a) == IF a[1] < 32768 THEN a[1] * Two16 + a[2]
            ELSE (a[1] - Two16) * Two16 + a[2]

\* i32 % i32 in WGSL truncates toward zero (sign of the dividend)
RemI32(a, n) == IF a >= 0 THEN a % n ELSE 0 - ((0 - a) % n)

\* bit pattern of the f32 that holds the non-negative integer n exactly
RECURSIVE Log2Floor(_)
Log2Floor(n) == IF n <= 1 THEN 0 ELSE 1 + Log2Floor(n \div 2)

RECURSIVE Pow2(_)
Pow2(e) == IF e = 0 THEN 1 ELSE 2 * Pow2(e - 1)

F32Bits(n) ==
  IF n = 0 THEN 0
  ELSE Bind(Log2Floor(n),
            LAMBDA e : (127 + e) * Pow2(23) + (n - Pow2(e)) * Pow2(23 - e))

----------------------------------------------------------------------------
(* Out-of-bounds buffer accesses.  WebGPU leaves the outcome to the        *)
(* implementation; the two behaviours implementations have are modelled:   *)
(* "zero" (loads give 0, stores are dropped) and "clamp" (the index is     *)
(* clamped to the last element).  dev = [oob, nanU32] is the device's      *)
(* choice of these and of the value of u32(NaN).                           *)

OOBPolicies == {"zero", "clamp"}

\* the devices the model runs on: between them they show both out-of-bounds
\* behaviours and both values of u32(NaN)
Devices ==
  { [ oob |-> "zero", nanU32 |-> 0 ],
    [ oob |-> "clamp", nanU32 |-> 2147483647 ] }

InBounds(idx, len) == idx[1] = 0 /\ idx[2] < len

Load(buf, len, idx, zero, dev) ==
  IF InBounds(idx, len) THEN buf[idx[2]]
  ELSE IF dev.oob = "clamp" THEN buf[len - 1] ELSE zero

Store(buf, len, idx, v, dev) ==
  IF InBounds(idx, len) THEN [buf EXCEPT ![idx[2]] = v]
  ELSE IF dev.oob = "clamp" THEN [buf EXCEPT ![len - 1] = v] ELSE buf

\* a loop "for t = lo .. hi: st = Body(t, st)".  The range is halved and the
\* state after the first half is computed before the second half starts, so
\* that the evaluation depth stays logarithmic in the trip count.
RECURSIVE ForRange(_, _, _, _)
ForRange(Body(_, _), st, lo, hi) ==
  IF lo > hi THEN st
  ELSE IF lo = hi THEN Bind(st, LAMBDA v : Body(lo, v))
  ELSE Bind(ForRange(Body, st, lo, (lo + hi) \div 2),
            LAMBDA half : ForRange(Body, half, ((lo + hi) \div 2) + 1, hi))

workgroupCount(itemCount, workgroupSize) ==
  (itemCount + workgroupSize - 1) \div workgroupSize

Max(a, b) == IF a >= b THEN a ELSE b
Min(a, b) == IF a <= b THEN a ELSE b

----------------------------------------------------------------------------
(* CellList: host side *)

\* a number written into a Float32Array element and read by the shader
\* through a u32 struct field
F32AsU32(n) == U32(F32Bits(n))

\* CellList.packParams: every field goes through one Float32Array
CellListPackParams(p) ==
  [ numAtoms        |-> F32AsU32(p.numAtoms),
    numCellsX       |-> F32AsU32(p.numCellsX),
    numCellsY       |-> F32AsU32(p.numCellsY),
    numCellsZ       |-> F32AsU32(p.numCellsZ),
    cellSize        |-> p.cellSize,
    maxAtomsPerCell |-> F32AsU32(p.maxAtomsPerCell),
    origin          |-> p.origin,
    boxL            |-> p.boxL ]

\* variant: the grid dimensions rounded up instead of down
CellListUpdateBoxCeil(box, nAtoms, searchRadius, maxPerCell) ==
  LET nx == Max(1, (box.l[1] + searchRadius - 1) \div searchRadius)
      ny == Max(1, (box.l[2] + searchRadius - 1) \div searchRadius)
      nz == Max(1, (box.l[3] + searchRadius - 1) \div searchRadius)
      nc == nx * ny * nz
  IN  [ numCellsX |-> nx, numCellsY |-> ny, numCellsZ |-> nz, numCells |-> nc,
        numAtoms |-> nAtoms, maxAtomsPerCell |-> maxPerCell,
        params |-> CellListPackParams(
          [ numAtoms |-> nAtoms, numCellsX |-> nx, numCellsY |-> ny,
            numCellsZ |-> nz,
            cellSize |-> << [num |-> box.l[1], den |-> nx],
                            [num |-> box.l[2], den |-> ny],
                            [num |-> box.l[3], den |-> nz] >>,
            maxAtomsPerCell |-> maxPerCell,
            origin |-> box.origin, boxL |-> box.l ]),
        cellCounts |-> [c \in 0..(nc - 1) |-> 0],
        cellAtoms  |-> [c \in 0..(nc * maxPerCell - 1) |-> 0] ]

\* CellList.updateBox: grid dimensions, exact-fit cell size (kept as the
\* rational num/den), parameter block, freshly allocated (zeroed) buffers
CellListUpdateBox(box, nAtoms, searchRadius, maxPerCell) ==
  LET nx == Max(1, box.l[1] \div searchRadius)
      ny == Max(1, box.l[2] \div searchRadius)
      nz == Max(1, box.l[3] \div searchRadius)
      nc == nx * ny * nz
  IN  [ numCellsX |-> nx, numCellsY |-> ny, numCellsZ |-> nz, numCells |-> nc,
        numAtoms |-> nAtoms, maxAtomsPerCell |-> maxPerCell,
        params |-> CellListPackParams(
          [ numAtoms |-> nAtoms, numCellsX |-> nx, numCellsY |-> ny,
            numCellsZ |-> nz,
            cellSize |-> << [num |-> box.l[1], den |-> nx],
                            [num |-> box.l[2], den |-> ny],
                            [num |-> box.l[3], den |-> nz] >>,
            maxAtomsPerCell |-> maxPerCell,
            origin |-> box.origin, boxL |-> box.l ]),
        cellCounts |-> [c \in 0..(nc - 1) |-> 0],
        cellAtoms  |-> [c \in 0..(nc * maxPerCell - 1) |-> 0] ]

----------------------------------------------------------------------------
(* cellList.wgsl: resetCells, binAtoms *)

\* cellIndex(ix, iy, iz) of the binning shader, in u32 arithmetic
BinCellIndex(P, ix, iy, iz) ==
  Bind(MulU32(iy, P.numCellsX), LAMBDA row :
  Bind(MulU32(P.numCellsX, P.numCellsY), LAMBDA plane :
  Bind(MulU32(iz, plane), LAMBDA slab :
  Bind(AddU32(ix, row), LAMBDA front : AddU32(front, slab)))))

\* one axis of positionToCell: wrap into the box, divide by the cell size,
\* convert to u32, clamp to numCells - 1
AxisToCell(P, x, a, numCellsA, dev) ==
  LET p0 == x - P.origin[a]
      px == p0 - (p0 \div P.boxL[a]) * P.boxL[a]
      q  == IF x = NaN THEN dev.nanU32
            ELSE (px * P.cellSize[a].den) \div P.cellSize[a].num
  IN  Bind(U32(q), LAMBDA c :
      Bind(DecU32(numCellsA), LAMBDA top : MinU32(c, top)))

positionToCell(P, x, y, z, dev) ==
  << AxisToCell(P, x, 1, P.numCellsX, dev),
     AxisToCell(P, y, 2, P.numCellsY, dev),
     AxisToCell(P, z, 3, P.numCellsZ, dev) >>

\* resetCells, thread idx; numCells is the product the thread computes from
\* the parameter block
ResetThread(numCells, counts, len, idx, dev) ==
  IF LtU32(U32(idx), numCells)
  THEN Store(counts, len, U32(idx), 0, dev)
  ELSE counts

ResetCells(P, counts, len, nThreads, dev) ==
  Bind(MulU32(P.numCellsX, P.numCellsY), LAMBDA plane :
  Bind(MulU32(plane, P.numCellsZ), LAMBDA numCells :
    ForRange(LAMBDA idx, c : ResetThread(numCells, c, len, idx, dev),
             counts, 0, nThreads - 1)))

\* binAtoms, first half of thread atomIdx: load the position, find the cell.
\* Gives the linear cell index and the offset of the cell's slot range.
BinTarget(P, cl, pos, atomIdx, dev) ==
  Bind(Load(pos, 3 * cl.numAtoms, U32(atomIdx * 3 + 0), 0, dev), LAMBDA x :
  Bind(Load(pos, 3 * cl.numAtoms, U32(atomIdx * 3 + 1), 0, dev), LAMBDA y :
  Bind(Load(pos, 3 * cl.numAtoms, U32(atomIdx * 3 + 2), 0, dev), LAMBDA z :
  Bind(positionToCell(P, x, y, z, dev), LAMBDA cell :
  Bind(BinCellIndex(P, cell[1], cell[2], cell[3]), LAMBDA c :
    [cellIdx |-> c, base |-> MulU32(c, P.maxAtomsPerCell)])))))

\* binAtoms, second half of thread atomIdx: record the cell, claim a slot
\* with atomicAdd, store the atom if the slot is below the capacity.
\* st = [counts, atoms, acell] are the three read-write bindings.
BinClaim(P, cl, tgt, st, atomIdx, dev) ==
  Bind(Load(st.counts, cl.numCells, tgt.cellIdx, 0, dev), LAMBDA slot :
    [ counts |-> Store(st.counts, cl.numCells, tgt.cellIdx, slot + 1, dev),
      atoms  |-> IF LtU32(U32(slot), P.maxAtomsPerCell)
                 THEN Bind(AddU32(tgt.base, U32(slot)), LAMBDA offset :
                        Store(st.atoms, cl.numCells * cl.maxAtomsPerCell,
                              offset, atomIdx, dev))
                 ELSE st.atoms,
      acell  |-> Store(st.acell, cl.numAtoms, U32(atomIdx), tgt.cellIdx,
                       dev) ])

\* binAtoms, thread atomIdx.  far is BinTarget of a thread whose three
\* position loads are all out of bounds: it is the same for every such
\* thread, and computed once per dispatch.
BinThread(P, cl, pos, far, st, atomIdx, dev) ==
  IF ~ LtU32(U32(atomIdx), P.numAtoms) THEN st
  ELSE IF atomIdx >= cl.numAtoms
       THEN BinClaim(P, cl, far, st, atomIdx, dev)
       ELSE Bind(BinTarget(P, cl, pos, atomIdx, dev),
                 LAMBDA tgt : BinClaim(P, cl, tgt, st, atomIdx, dev))

\* the bin pass run over the threads in the order given by the sequence
BinAtoms(P, cl, pos, st, order, dev) ==
  Bind(BinTarget(P, cl, pos, cl.numAtoms, dev), LAMBDA far :
    ForRange(LAMBDA k, t : BinThread(P, cl, pos, far, t, order[k], dev),
             st, 1, Len(order)))

BinWorkgroupSize == 256

\* CellList.build: the reset pass, then the bin pass.  The bin threads run
\* concurrently; their atomicAdd slot claims are serialised in the order
\* given by binOrder.
CellListBuild(cl, pos, counts, atoms, acell, binOrder, dev) ==
  Bind(ResetCells(cl.params, counts, cl.numCells,
                  workgroupCount(cl.numCells, BinWorkgroupSize)
                    * BinWorkgroupSize, dev), LAMBDA reset :
    BinAtoms(cl.params, cl, pos,
             [counts |-> reset, atoms |-> atoms, acell |-> acell],
             binOrder, dev))

\* the thread orders of the bin pass that the model explores: the threads
\* below numAtoms first, in ascending order, or last, in descending order;
\* the remaining threads of the dispatch in index order
BinOrders(nAtoms) ==
  LET nThreads == workgroupCount(nAtoms, BinWorkgroupSize) * BinWorkgroupSize
      rest     == [k \in 1..(nThreads - nAtoms) |-> nAtoms + k - 1]
      up       == [k \in 1..nAtoms |-> k - 1]
      down     == [k \in 1..nAtoms |-> nAtoms - k]
  IN  { up \o rest, rest \o down }
----------------------------------------------------------------------------
(* NeighborList: host side *)

DefaultMaxAtomsPerCell == 64

\* NeighborList.packParams: integer fields through the Uint32Array view
NeighborListPackParams(p) ==
  [ numAtoms        |-> U32(p.numAtoms),
    numCellsX       |-> U32(p.numCellsX),
    numCellsY       |-> U32(p.numCellsY),
    numCellsZ       |-> U32(p.numCellsZ),
    maxNeighbors    |-> U32(p.maxNeighbors),
    cutoffSq        |-> p.cutoffSq,
    maxAtomsPerCell |-> U32(p.maxAtomsPerCell),
    origin          |-> p.origin,
    boxL            |-> p.boxL,
    periodic        |-> << U32(p.periodic[1]), U32(p.periodic[2]),
                           U32(p.periodic[3]) >> ]

\* NeighborList.updateParams
NeighborListUpdateParams(box, cl, nAtoms, effectiveCutoff, maxNeigh) ==
  NeighborListPackParams(
    [ numAtoms |-> nAtoms,
      numCellsX |-> cl.numCellsX, numCellsY |-> cl.numCellsY,
      numCellsZ |-> cl.numCellsZ,
      maxNeighbors |-> maxNeigh,
      cutoffSq |-> effectiveCutoff * effectiveCutoff,
      maxAtomsPerCell |-> IF cl.numCells > 0 THEN DefaultMaxAtomsPerCell ELSE 0,
      origin |-> box.origin, boxL |-> box.l,
      periodic |-> << IF box.periodic[1] THEN 1 ELSE 0,
                      IF box.periodic[2] THEN 1 ELSE 0,
                      IF box.periodic[3] THEN 1 ELSE 0 >> ])

----------------------------------------------------------------------------
(* cellList.wgsl, neighbor-list entry point: cellIndex, isCellValid,       *)
(* minimumImage, buildNeighborList                                         *)

NeighCellIndex(P, ix, iy, iz) ==
  LET nx == ValU32(P.numCellsX)
      ny == ValU32(P.numCellsY)
      nz == ValU32(P.numCellsZ)
      cx == IF P.periodic[1] # U32(0) THEN RemI32(ix + nx, nx) ELSE ix
      cy == IF P.periodic[2] # U32(0) THEN RemI32(iy + ny, ny) ELSE iy
      cz == IF P.periodic[3] # U32(0) THEN RemI32(iz + nz, nz) ELSE iz
  IN  Bind(MulU32(U32(cy), P.numCellsX), LAMBDA row :
      Bind(MulU32(P.numCellsX, P.numCellsY), LAMBDA plane :
      Bind(MulU32(U32(cz), plane), LAMBDA slab :
      Bind(AddU32(U32(cx), row), LAMBDA front : AddU32(front, slab)))))

isCellValid(P, ix, iy, iz) ==
  /\ ~ (P.periodic[1] = U32(0) /\ (ix < 0 \/ ix >= ValU32(P.numCellsX)))
  /\ ~ (P.periodic[2] = U32(0) /\ (iy < 0 \/ iy >= ValU32(P.numCellsY)))
  /\ ~ (P.periodic[3] = U32(0) /\ (iz < 0 \/ iz >= ValU32(P.numCellsZ)))

\* one axis of minimumImage: a single +-L correction
MinImageAxis(d, L, periodic) ==
  IF periodic /\ d # NaN
  THEN IF 2 * d > L THEN d - L
       ELSE IF 2 * d < 0 - L THEN d + L ELSE d
  ELSE d

minimumImage(P, dx, dy, dz) ==
  << MinImageAxis(dx, P.boxL[1], P.periodic[1] # U32(0)),
     MinImageAxis(dy, P.boxL[2], P.periodic[2] # U32(0)),
     MinImageAxis(dz, P.boxL[3], P.periodic[3] # U32(0)) >>

\* dx*dx + dy*dy + dz*dz
NormSq(delta) ==
  FAdd(FAdd(FMul(delta[1], delta[1]), FMul(delta[2], delta[2])),
       FMul(delta[3], delta[3]))

\* variant: a capacity test that admits one entry too many
RowHasRoomInclusive(P, nNeigh) == nNeigh <= ValU32(P.maxNeighbors)

\* the row-capacity test that guards the store of a neighbor
RowHasRoom(P, nNeigh) == nNeigh < ValU32(P.maxNeighbors)

\* one iteration of the inner loop: slot k of stencil cell c.
\* acc = [list, n, written, dropped]: the neighborList binding, the local
\* nNeigh, and two observers (the indices stored to, the number of in-range
\* candidates not stored).
ScanSlot(P, nAtoms, pos, atoms, atomsLen, c, k, acc, dev) ==
  Bind(AddU32(c.cellOffset, U32(k)), LAMBDA slot :
  Bind(Load(atoms, atomsLen, slot, 0, dev), LAMBDA j :
    IF j = c.i THEN acc
    ELSE
      Bind(Load(pos, 3 * nAtoms, U32(j * 3 + 0), 0, dev), LAMBDA xj :
      Bind(Load(pos, 3 * nAtoms, U32(j * 3 + 1), 0, dev), LAMBDA yj :
      Bind(Load(pos, 3 * nAtoms, U32(j * 3 + 2), 0, dev), LAMBDA zj :
      Bind(<< FSub(c.xi, xj), FSub(c.yi, yj), FSub(c.zi, zj) >>, LAMBDA d :
      Bind(minimumImage(P, d[1], d[2], d[3]), LAMBDA delta :
      Bind(NormSq(delta), LAMBDA rsq :
        IF FLt(rsq, P.cutoffSq)
        THEN IF RowHasRoom(P, acc.n)
             THEN [acc EXCEPT
                     !.list = Store(@, nAtoms * ValU32(P.maxNeighbors),
                                    U32(c.baseOffset + acc.n), j, dev),
                     !.n = @ + 1,
                     !.written = @ \cup {c.baseOffset + acc.n}]
             ELSE [acc EXCEPT !.dropped = @ + 1]
        ELSE acc))))))))

\* for (k = 0; k < cellCount && k < maxAtomsPerCell; k++)
ScanCell(P, nAtoms, pos, atoms, atomsLen, c, acc, dev) ==
  ForRange(LAMBDA k, a : ScanSlot(P, nAtoms, pos, atoms, atomsLen, c, k, a, dev),
           acc, 0, Min(c.cellCount, ValU32(P.maxAtomsPerCell)) - 1)

\* the 3x3x3 stencil, cell s of 27 in the order dz, dy, dx (dx fastest)
StencilCell(P, nAtoms, pos, cb, me, s, acc, nCells, dev) ==
  LET dx  == (s % 3) - 1
      dy  == ((s \div 3) % 3) - 1
      dz  == (s \div 9) - 1
      jcx == me.icx + dx
      jcy == me.icy + dy
      jcz == me.icz + dz
  IN  IF ~ isCellValid(P, jcx, jcy, jcz) THEN acc
      ELSE
        Bind(NeighCellIndex(P, jcx, jcy, jcz), LAMBDA jCell :
        Bind([ i |-> me.i, xi |-> me.xi, yi |-> me.yi, zi |-> me.zi,
               baseOffset |-> me.baseOffset,
               cellCount  |-> Load(cb.counts, nCells, jCell, 0, dev),
               cellOffset |-> MulU32(jCell, P.maxAtomsPerCell) ], LAMBDA c :
          ScanCell(P, nAtoms, pos, cb.atoms, cb.atomsLen, c, acc, dev)))

ScanStencil(P, nAtoms, pos, cb, me, acc, nCells, dev) ==
  ForRange(LAMBDA s, a : StencilCell(P, nAtoms, pos, cb, me, s, a, nCells, dev),
           acc, 0, 26)

NeighWorkgroupSize == 64

\* buildNeighborList, thread i.  cb = [counts, atoms, acell, atomsLen] are
\* the cell-list bindings; out = [list, num, written, dropped].
NeighThread(P, nAtoms, pos, cb, nCells, out, i, dev) ==
  IF i >= ValU32(P.numAtoms) THEN out
  ELSE
    LET nPos == 3 * nAtoms
        nx   == ValU32(P.numCellsX)
        ny   == ValU32(P.numCellsY)
    IN  Bind(Load(cb.acell, nAtoms, U32(i), U32(0), dev), LAMBDA iCell :
        Bind(DivU32(iCell, nx), LAMBDA iRow :
        Bind(DivU32(iCell, nx * ny), LAMBDA iPlane :
        Bind([ i   |-> i,
               xi  |-> Load(pos, nPos, U32(i * 3 + 0), 0, dev),
               yi  |-> Load(pos, nPos, U32(i * 3 + 1), 0, dev),
               zi  |-> Load(pos, nPos, U32(i * 3 + 2), 0, dev),
               icx |-> ModU32(iCell, nx),
               icy |-> ModU32(iRow, ny),
               icz |-> ToI32(iPlane),
               baseOffset |-> i * ValU32(P.maxNeighbors) ], LAMBDA me :
        Bind(ScanStencil(P, nAtoms, pos, cb, me,
                         [list |-> out.list, n |-> 0,
                          written |-> {}, dropped |-> 0],
                         nCells, dev), LAMBDA acc :
          [ list    |-> acc.list,
            num     |-> Store(out.num, nAtoms, U32(i), acc.n, dev),
            written |-> [out.written EXCEPT ![i] = acc.written],
            dropped |-> [out.dropped EXCEPT ![i] = acc.dropped] ])))))

BuildNeighborList(P, nAtoms, pos, cb, nCells, out, nThreads, dev) ==
  ForRange(LAMBDA i, o : NeighThread(P, nAtoms, pos, cb, nCells, o, i, dev),
           out, 0, nThreads - 1)

\* NeighborList.build: cell list first, then one neighbor pass
NeighborListBuild(cl, P, nAtoms, pos, counts, atoms, acell, list, num, binOrder, dev) ==
  Bind(CellListBuild(cl, pos, counts, atoms, acell, binOrder, dev),
       LAMBDA cells :
  Bind([ counts |-> cells.counts, atoms |-> cells.atoms,
         acell |-> cells.acell,
         atomsLen |-> cl.numCells * cl.maxAtomsPerCell ], LAMBDA cb :
  Bind(BuildNeighborList(P, nAtoms, pos, cb, cl.numCells,
         [ list |-> list, num |-> num,
           written |-> [i \in 0..(nAtoms - 1) |-> {}],
           dropped |-> [i \in 0..(nAtoms - 1) |-> 0] ],
         workgroupCount(nAtoms, NeighWorkgroupSize) * NeighWorkgroupSize,
         dev), LAMBDA out :
    [ counts |-> cells.counts, atoms |-> cells.atoms, acell |-> cells.acell,
      list |-> out.list, num |-> out.num,
      written |-> out.written, dropped |-> out.dropped ])))

----------------------------------------------------------------------------
(* VelocityVerlet: host side and velocityVerlet.wgsl *)

DispScale == 1000000

IntegratorWorkgroupSize == 256

\* VelocityVerlet.updateBox + updateParams: integer fields through the
\* Uint32Array view
IntegratorUpdateParams(box, nAtoms) ==
  [ numAtoms |-> U32(nAtoms),
    origin   |-> box.origin,
    boxL     |-> box.l,
    periodic |-> << U32(IF box.periodic[1] THEN 1 ELSE 0),
                    U32(IF box.periodic[2] THEN 1 ELSE 0),
                    U32(IF box.periodic[3] THEN 1 ELSE 0) >> ]

\* one axis of applyPBC: x - floor((x - origin) / L) * L on a periodic axis
PBCAxis(IP, x, a) ==
  IF IP.periodic[a] # U32(0) /\ x # NaN
  THEN LET px == x - IP.origin[a]
       IN  IP.origin[a] + px - (px \div IP.boxL[a]) * IP.boxL[a]
  ELSE x

applyPBC(IP, x, y, z) == << PBCAxis(IP, x, 1), PBCAxis(IP, y, 2), PBCAxis(IP, z, 3) >>

minimumImageDisplacement(IP, dx, dy, dz) ==
  << MinImageAxis(dx, IP.boxL[1], IP.periodic[1] # U32(0)),
     MinImageAxis(dy, IP.boxL[2], IP.periodic[2] # U32(0)),
     MinImageAxis(dz, IP.boxL[3], IP.periodic[3] # U32(0)) >>

\* v + halfDt * f * invMass with invMass = 1.0 / mass: not finite when the
\* mass is 0
HalfKick(v, f, mass) ==
  IF mass = 0 \/ f = NaN THEN NaN ELSE FAdd(v, f \div mass)

\* u32(dispSq * 1000000.0): dispSq is in grid units squared, so the product
\* is dispSq / (GridPerUnit^2 / 10^6), truncated
ScaledDispSq(dispSq, dev) ==
  IF dispSq = NaN THEN dev.nanU32
  ELSE dispSq \div ((GridPerUnit * GridPerUnit) \div DispScale)

\* integrateInitial, thread i.  st = [positions, velocities, acc]: the two
\* read-write bindings and the atomic maxDisplacementSq.
IntegrateInitialThread(IP, mass, frc, last, st, i, dev) ==
  IF i >= ValU32(IP.numAtoms) THEN st
  ELSE
    Bind([a \in 0..2 |->
            HalfKick(st.velocities[i * 3 + a], frc[i * 3 + a], mass[i])],
         LAMBDA newV :
    Bind(<< FAdd(st.positions[i * 3 + 0], newV[0]),
            FAdd(st.positions[i * 3 + 1], newV[1]),
            FAdd(st.positions[i * 3 + 2], newV[2]) >>, LAMBDA moved :
    Bind(applyPBC(IP, moved[1], moved[2], moved[3]), LAMBDA wrapped :
    Bind(<< FSub(wrapped[1], last[i * 3 + 0]),
            FSub(wrapped[2], last[i * 3 + 1]),
            FSub(wrapped[3], last[i * 3 + 2]) >>, LAMBDA raw :
    Bind(minimumImageDisplacement(IP, raw[1], raw[2], raw[3]), LAMBDA disp :
    Bind(NormSq(disp), LAMBDA dispSq :
    Bind(ScaledDispSq(dispSq, dev), LAMBDA dispSqScaled :
      [ velocities |-> [k \in DOMAIN st.velocities |->
                          IF k \div 3 = i THEN newV[k % 3]
                          ELSE st.velocities[k]],
        positions  |-> [k \in DOMAIN st.positions |->
                          IF k \div 3 = i THEN wrapped[(k % 3) + 1]
                          ELSE st.positions[k]],
        acc        |-> Max(st.acc, dispSqScaled) ])))))))

IntegrateInitialPass(IP, nAtoms, mass, frc, last, st, dev) ==
  ForRange(LAMBDA i, s : IntegrateInitialThread(IP, mass, frc, last, s, i, dev),
           st, 0,
           workgroupCount(nAtoms, IntegratorWorkgroupSize)
             * IntegratorWorkgroupSize - 1)

\* integrateFinal, thread i
IntegrateFinalThread(IP, mass, frc, vel, i) ==
  IF i >= ValU32(IP.numAtoms) THEN vel
  ELSE [k \in DOMAIN vel |->
          IF k \div 3 = i THEN HalfKick(vel[k], frc[k], mass[i]) ELSE vel[k]]

IntegrateFinalPass(IP, nAtoms, mass, frc, vel) ==
  ForRange(LAMBDA i, v : IntegrateFinalThread(IP, mass, frc, v, i),
           vel, 0,
           workgroupCount(nAtoms, IntegratorWorkgroupSize)
             * IntegratorWorkgroupSize - 1)

\* variant: the criterion with >= in place of >
needsNeighborRebuildInclusive(scaled, skinGrid) ==
  IF scaled > skinGrid * skinGrid THEN TRUE
  ELSE 4 * scaled * ((GridPerUnit * GridPerUnit) \div DispScale)
         >= skinGrid * skinGrid

\* needsNeighborRebuild(skin): 2 * sqrt(scaled / 10^6) > skin, for skin >= 0,
\* with both sides squared and brought to grid units
needsNeighborRebuild(scaled, skinGrid) ==
  IF scaled > skinGrid * skinGrid THEN TRUE
  ELSE 4 * scaled * ((GridPerUnit * GridPerUnit) \div DispScale)
         > skinGrid * skinGrid

----------------------------------------------------------------------------
(* PairLJCut: pairLJCut.wgsl *)

PairWorkgroupSize == 64

\* PairLJCut.updateParams
PairUpdateParams(box, nAtoms, maxNeigh) ==
  [ numAtoms     |-> U32(nAtoms),
    maxNeighbors |-> U32(maxNeigh),
    boxL         |-> box.l,
    periodic     |-> << U32(IF box.periodic[1] THEN 1 ELSE 0),
                        U32(IF box.periodic[2] THEN 1 ELSE 0),
                        U32(IF box.periodic[3] THEN 1 ELSE 0) >> ]

\* the coefficient block of the one type pair: all zero until setCoeff
NoCoeff == [cutsq |-> 0, sigmaSq |-> 0]

\* PairLJCut.setCoeff + uploadCoeffs, epsilon = 1
SetCoeff(sigma, cutoff) == [cutsq |-> cutoff * cutoff, sigmaSq |-> sigma * sigma]

\* fpair = r6inv * (lj1 * r6inv - lj2) * r2inv.  Not finite at rsq = 0;
\* otherwise only its sign is kept (positive below the potential minimum
\* rsq = 2^(1/3) sigma^2, taken as 63/50 sigma^2) and its magnitude is one
\* force unit per grid unit of separation.
LJPair(rsq, coeff) ==
  IF rsq = 0 THEN NaN
  ELSE IF rsq < (63 * coeff.sigmaSq) \div 50 THEN 1 ELSE -1

\* variant: only differences above +L/2 are brought back
PairMinimumImageOneSided(PP, dx, dy, dz) ==
  << IF PP.periodic[1] # U32(0) /\ dx # NaN /\ 2 * dx > PP.boxL[1]
     THEN dx - PP.boxL[1] ELSE dx,
     IF PP.periodic[2] # U32(0) /\ dy # NaN /\ 2 * dy > PP.boxL[2]
     THEN dy - PP.boxL[2] ELSE dy,
     IF PP.periodic[3] # U32(0) /\ dz # NaN /\ 2 * dz > PP.boxL[3]
     THEN dz - PP.boxL[3] ELSE dz >>

\* minimumImage of the pair shader: the same single +-L correction
PairMinimumImage(PP, dx, dy, dz) ==
  << MinImageAxis(dx, PP.boxL[1], PP.periodic[1] # U32(0)),
     MinImageAxis(dy, PP.boxL[2], PP.periodic[2] # U32(0)),
     MinImageAxis(dz, PP.boxL[3], PP.periodic[3] # U32(0)) >>

\* variant: the cutoff test is left out of the neighbor loop
PairEntryNoCutoff(PP, nAtoms, pos, list, coeff, me, n, f, dev) ==
  Bind(Load(list, nAtoms * ValU32(PP.maxNeighbors),
            U32(me.baseOffset + n), 0, dev), LAMBDA j :
  Bind(PairMinimumImage(PP,
         FSub(me.xi, Load(pos, 3 * nAtoms, U32(j * 3 + 0), 0, dev)),
         FSub(me.yi, Load(pos, 3 * nAtoms, U32(j * 3 + 1), 0, dev)),
         FSub(me.zi, Load(pos, 3 * nAtoms, U32(j * 3 + 2), 0, dev))),
       LAMBDA delta :
  Bind(LJPair(NormSq(delta), coeff), LAMBDA fpair :
    << FAdd(f[1], FMul(delta[1], fpair)), FAdd(f[2], FMul(delta[2], fpair)),
       FAdd(f[3], FMul(delta[3], fpair)) >>)))

\* one iteration of the neighbor loop of computeForces: entry n of row i
PairEntry(PP, nAtoms, pos, list, coeff, me, n, f, dev) ==
  Bind(Load(list, nAtoms * ValU32(PP.maxNeighbors),
            U32(me.baseOffset + n), 0, dev), LAMBDA j :
  Bind(Load(pos, 3 * nAtoms, U32(j * 3 + 0), 0, dev), LAMBDA xj :
  Bind(Load(pos, 3 * nAtoms, U32(j * 3 + 1), 0, dev), LAMBDA yj :
  Bind(Load(pos, 3 * nAtoms, U32(j * 3 + 2), 0, dev), LAMBDA zj :
  Bind(<< FSub(me.xi, xj), FSub(me.yi, yj), FSub(me.zi, zj) >>, LAMBDA d :
  Bind(PairMinimumImage(PP, d[1], d[2], d[3]), LAMBDA delta :
  Bind(NormSq(delta), LAMBDA rsq :
    IF FLt(rsq, coeff.cutsq)
    THEN Bind(LJPair(rsq, coeff), LAMBDA fpair :
         Bind(<< FMul(delta[1], fpair), FMul(delta[2], fpair),
                 FMul(delta[3], fpair) >>, LAMBDA df :
           << FAdd(f[1], df[1]), FAdd(f[2], df[2]), FAdd(f[3], df[3]) >>))
    ELSE f)))))))

\* computeForces, thread i
ComputeForcesThread(PP, nAtoms, pos, list, num, coeff, frc, i, dev) ==
  IF i >= ValU32(PP.numAtoms) THEN frc
  ELSE
    Bind([ xi |-> pos[i * 3 + 0], yi |-> pos[i * 3 + 1],
           zi |-> pos[i * 3 + 2],
           baseOffset |-> i * ValU32(PP.maxNeighbors) ], LAMBDA me :
    Bind(ForRange(LAMBDA n, acc :
                    PairEntry(PP, nAtoms, pos, list, coeff, me, n, acc, dev),
                  <<0, 0, 0>>, 0, num[i] - 1), LAMBDA f :
      [k \in DOMAIN frc |-> IF k \div 3 = i THEN f[(k % 3) + 1] ELSE frc[k]]))

\* zeroForces, thread i
ZeroForcesThread(PP, frc, i) ==
  IF i >= ValU32(PP.numAtoms) THEN frc
  ELSE [k \in DOMAIN frc |-> IF k \div 3 = i THEN 0 ELSE frc[k]]

\* PairLJCut.compute: the zero pass, then the force pass
PairCompute(PP, nAtoms, pos, list, num, coeff, frc, dev) ==
  LET nThreads == workgroupCount(nAtoms, PairWorkgroupSize) * PairWorkgroupSize
  IN  Bind(ForRange(LAMBDA i, f : ZeroForcesThread(PP, f, i),
                    frc, 0, nThreads - 1), LAMBDA zeroed :
        ForRange(LAMBDA i, f :
                   ComputeForcesThread(PP, nAtoms, pos, list, num, coeff, f, i,
                                       dev),
                 zeroed, 0, nThreads - 1))

----------------------------------------------------------------------------
(* Observers: quantities of the physical system, computed independently of *)
(* the kernels.  They are read by the properties only.                     *)

\* the representative of d modulo L nearest to zero
NearestImage(d, L, periodic) ==
  IF periodic THEN d - ((2 * d + L) \div (2 * L)) * L ELSE d

\* squared separation of the points p and q under the box's periodicity
TrueSepSq(box, p, q) ==
  IF \E a \in 1..3 : p[a] = NaN \/ q[a] = NaN THEN NaN
  ELSE Bind([a \in 1..3 |->
               NearestImage(p[a] - q[a], box.l[a], box.periodic[a])],
            LAMBDA d : d[1] * d[1] + d[2] * d[2] + d[3] * d[3])

PointOf(buf, i) == << buf[i * 3 + 0], buf[i * 3 + 1], buf[i * 3 + 2] >>

\* largest squared displacement of any particle from the baseline
TrueMaxDispSq(box, nAtoms, pos, last) ==
  Bind([i \in 0..(nAtoms - 1) |->
          Bind(PointOf(pos, i), LAMBDA p :
          Bind(PointOf(last, i), LAMBDA q : TrueSepSq(box, p, q)))],
       LAMBDA d :
    IF \E i \in 0..(nAtoms - 1) : d[i] = NaN THEN NaN
    ELSE CHOOSE m \in {d[i] : i \in 0..(nAtoms - 1)} :
           \A i \in 0..(nAtoms - 1) : d[i] <= m)

FMax(a, b) == IF a = NaN \/ b = NaN THEN NaN ELSE Max(a, b)

\* a squared length in grid units as a whole number of 10^-6 squared length
\* units, rounded toward zero; the device chooses the result for NaN
FixedPoint(d, dev) ==
  IF d = NaN THEN dev.nanU32
  ELSE d \div ((GridPerUnit * GridPerUnit) \div 1000000)

----------------------------------------------------------------------------
(* Simulation: the orchestrator.  A simulation is a record s of the fields *)
(* of Simulation, SimulationState, NeighborList, CellList, VelocityVerlet  *)
(* and PairLJCut; the handlers map a record to the record after the call.  *)

useDisplacementRebuild == TRUE

displacementCheckEvery == 10

Zeros(n) == [k \in 0..(n - 1) |-> 0]

\* Simulation.create: SimulationState, NeighborList (with its CellList),
\* VelocityVerlet and PairLJCut are constructed and given the box.  Every
\* GPU buffer is allocated zeroed, the masses buffer included.
Create(cfg) ==
  Bind(CellListUpdateBox(cfg.box, cfg.numAtoms, cfg.cutoff + cfg.skin,
                         DefaultMaxAtomsPerCell), LAMBDA cl :
      [ numAtoms |-> cfg.numAtoms, box |-> cfg.box, cutoff |-> cfg.cutoff,
        skin |-> cfg.skin, maxNeighbors |-> cfg.maxNeighbors,
        neighRebuildEvery |-> cfg.neighborRebuildEvery,
        masses |-> Zeros(cfg.numAtoms), coeff |-> NoCoeff,
        cellList |-> cl,
        neighParams |-> NeighborListUpdateParams(cfg.box, cl, cfg.numAtoms,
                          cfg.cutoff + cfg.skin, cfg.maxNeighbors),
        integParams |-> IntegratorUpdateParams(cfg.box, cfg.numAtoms),
        pairParams |-> PairUpdateParams(cfg.box, cfg.numAtoms,
                                        cfg.maxNeighbors),
        currentStep |-> 0, lastNeighRebuild |-> 0,
        positions |-> Zeros(3 * cfg.numAtoms),
        velocities |-> Zeros(3 * cfg.numAtoms),
        forces |-> Zeros(3 * cfg.numAtoms),
        lastRebuildPositions |-> Zeros(3 * cfg.numAtoms),
        maxDisplacementSq |-> 0,
        cellCounts |-> cl.cellCounts, cellAtoms |-> cl.cellAtoms,
        atomCell |-> [i \in 0..(cfg.numAtoms - 1) |-> U32(0)],
        neighborList |-> Zeros(cfg.numAtoms * cfg.maxNeighbors),
        numNeighbors |-> Zeros(cfg.numAtoms),
        trace |-> << >>, checked |-> FALSE, stale |-> FALSE,
        rebuilt |-> FALSE, seenAtCheck |-> 0, scaledAtCheck |-> 0,
        nlWritten |-> [i \in 0..(cfg.numAtoms - 1) |-> {}],
        nlDropped |-> Zeros(cfg.numAtoms),
        dispSeen |-> 0, scaledSeen |-> 0 ])

\* SimulationState.setMasses: the only write of the masses buffer
setMasses(s, m) == [s EXCEPT !.masses = m]

setPositions(s, p) == [s EXCEPT !.positions = p]

setVelocities(s, v) == [s EXCEPT !.velocities = v]

\* Simulation.fromLAMMPSData: create, then positions, types and masses
fromLAMMPSData(cfg, pos, mass) ==
  setMasses(setPositions(Create(cfg), pos), mass)

\* VelocityVerlet.integrateInitial: one dispatch over all atoms
integrateInitial(s, dev) ==
  Bind(IntegrateInitialPass(s.integParams, s.numAtoms, s.masses, s.forces,
         s.lastRebuildPositions,
         [ positions |-> s.positions, velocities |-> s.velocities,
           acc |-> s.maxDisplacementSq ], dev), LAMBDA r :
  Bind(TrueMaxDispSq(s.box, s.numAtoms, r.positions, s.lastRebuildPositions),
       LAMBDA d :
  Bind(FixedPoint(d, dev), LAMBDA fixed :
    [s EXCEPT !.positions = r.positions, !.velocities = r.velocities,
              !.maxDisplacementSq = r.acc,
              !.dispSeen = FMax(@, d),
              !.scaledSeen = Max(@, fixed),
              !.trace = Append(@, "integrateInitial")])))

\* NeighborList.build: the cell-list build, then the neighbor kernel
neighborListBuild(s, binOrder, dev) ==
  Bind(NeighborListBuild(s.cellList, s.neighParams, s.numAtoms,
         s.positions, s.cellCounts, s.cellAtoms, s.atomCell,
         s.neighborList, s.numNeighbors, binOrder, dev), LAMBDA r :
    [s EXCEPT !.cellCounts = r.counts, !.cellAtoms = r.atoms,
              !.atomCell = r.acell, !.neighborList = r.list,
              !.numNeighbors = r.num,
              !.nlWritten = r.written, !.nlDropped = r.dropped,
              !.trace = @ \o << "cellList.build", "neighborList.build" >>])

\* VelocityVerlet.resetMaxDisplacement
resetMaxDisplacement(s) ==
  [s EXCEPT !.maxDisplacementSq = 0, !.dispSeen = 0, !.scaledSeen = 0]

\* variant: the snapshot and the reset are left out
savePositionsSkipped(s) == s

\* variant: the copy runs from the snapshot to the positions
savePositionsReversed(s) ==
  resetMaxDisplacement(
    [s EXCEPT !.positions = s.lastRebuildPositions,
              !.trace = Append(@, "savePositionsForRebuild")])

\* KineticEnergy.compute: computePerAtomKE and reduceKE over the bindings
\* velocities and masses (read) and perAtomKE and result (read_write), one
\* workgroup; gives the four buffers after the two passes
KineticEnergyCompute(s, dev) ==
  Bind([i \in 0..(s.numAtoms - 1) |->
          FMul(s.masses[i], NormSq(PointOf(s.velocities, i)))],
       LAMBDA twice :
    [ velocities |-> s.velocities, masses |-> s.masses,
      perAtomKE |-> [i \in 0..(s.numAtoms - 1) |->
                       IF twice[i] = NaN THEN NaN ELSE twice[i] \div 2],
      result |-> IF \E i \in 0..(s.numAtoms - 1) : twice[i] = NaN THEN NaN
                 ELSE ForRange(LAMBDA i, sum : sum + twice[i] \div 2,
                               0, 0, s.numAtoms - 1) ])

\* VelocityVerlet.savePositionsForRebuild: copy, then reset
savePositionsForRebuild(s) ==
  resetMaxDisplacement(
    [s EXCEPT !.lastRebuildPositions = s.positions,
              !.trace = Append(@, "savePositionsForRebuild")])

\* Simulation.rebuildNeighborList
rebuildNeighborList(s, binOrder, dev) ==
  Bind(neighborListBuild(s, binOrder, dev), LAMBDA built :
  Bind([built EXCEPT !.lastNeighRebuild = s.currentStep, !.rebuilt = TRUE],
       LAMBDA marked : savePositionsForRebuild(marked)))

\* PairLJCut.compute
compute(s, dev) ==
  Bind(PairCompute(s.pairParams, s.numAtoms, s.positions, s.neighborList,
                   s.numNeighbors, s.coeff, s.forces, dev), LAMBDA f :
    [s EXCEPT !.forces = f, !.trace = Append(@, "compute")])

\* variant: the final half-kick is not dispatched
integrateFinalOmitted(s) == s

\* VelocityVerlet.integrateFinal
integrateFinal(s) ==
  Bind(IntegrateFinalPass(s.integParams, s.numAtoms, s.masses, s.forces,
                          s.velocities), LAMBDA v :
    [s EXCEPT !.velocities = v, !.trace = Append(@, "integrateFinal")])

\* variant: the interval test with a strict comparison
FixedIntervalDueStrict(s) ==
  s.currentStep - s.lastNeighRebuild > s.neighRebuildEvery

\* the rebuild test of the fixed-interval policy
FixedIntervalDue(s) ==
  s.currentStep - s.lastNeighRebuild >= s.neighRebuildEvery

\* variant: the accumulator is read back on every step
DisplacementCheckDueAlways(s) == s.currentStep >= s.lastNeighRebuild

\* the test that selects the steps on which the accumulator is read back
DisplacementCheckDue(s) ==
  (s.currentStep - s.lastNeighRebuild) % displacementCheckEvery = 0

\* the fallback test of the displacement policy
FallbackDue(s) ==
  s.currentStep - s.lastNeighRebuild >= s.neighRebuildEvery * 5

\* the awaited needsNeighborRebuild(this.skin) and the rebuild it guards
CheckDisplacement(s, binOrder, dev) ==
  Bind([s EXCEPT !.checked = TRUE,
                 !.stale = needsNeighborRebuild(s.maxDisplacementSq, s.skin),
                 !.seenAtCheck = s.dispSeen,
                 !.scaledAtCheck = s.scaledSeen], LAMBDA c :
    IF c.stale THEN rebuildNeighborList(c, binOrder, dev) ELSE c)

\* Simulation.step
step(s, binOrder, dev) ==
  Bind(integrateInitial(s, dev), LAMBDA a :
  Bind(IF FixedIntervalDue(a) THEN rebuildNeighborList(a, binOrder, dev)
       ELSE a, LAMBDA b :
  Bind(compute(b, dev), LAMBDA c :
  Bind(integrateFinal(c), LAMBDA e : [e EXCEPT !.currentStep = @ + 1]))))

\* Simulation.stepAsync
stepAsync(s, binOrder, dev) ==
  Bind(integrateInitial(s, dev), LAMBDA a :
  Bind(IF useDisplacementRebuild
       THEN IF DisplacementCheckDue(a)
            THEN CheckDisplacement(a, binOrder, dev)
            ELSE IF FallbackDue(a)
                 THEN rebuildNeighborList(a, binOrder, dev)
                 ELSE a
       ELSE IF FixedIntervalDue(a)
            THEN rebuildNeighborList(a, binOrder, dev)
            ELSE a, LAMBDA b :
  Bind(compute(b, dev), LAMBDA c :
  Bind(integrateFinal(c), LAMBDA e : [e EXCEPT !.currentStep = @ + 1]))))

\* Simulation.stepWithProfiling
stepWithProfiling(s, binOrder, dev) ==
  Bind(integrateInitial(s, dev), LAMBDA a :
  Bind(IF useDisplacementRebuild
       THEN Bind(IF DisplacementCheckDue(a)
                 THEN CheckDisplacement(a, binOrder, dev)
                 ELSE a, LAMBDA k :
              IF ~ k.rebuilt /\ FallbackDue(k)
              THEN rebuildNeighborList(k, binOrder, dev)
              ELSE k)
       ELSE IF FixedIntervalDue(a)
            THEN rebuildNeighborList(a, binOrder, dev)
            ELSE a, LAMBDA b :
  Bind(compute(b, dev), LAMBDA c :
  Bind(integrateFinal(c), LAMBDA e : [e EXCEPT !.currentStep = @ + 1]))))

\* Simulation.forceNeighborRebuild
forceNeighborRebuild(s) ==
  [s EXCEPT !.lastNeighRebuild = 0 - s.neighRebuildEvery]
\* createLJLiquid: a cutoff above half the smallest box length is replaced
\* by maxSafeCutoff = minBox / 2 - 0.01, and the call throws when that is
\* below the nearest-neighbour distance latticeConstant / sqrt(2)
LJLiquidThrows(cutoff, minBox, latticeConstant) ==
  /\ 2 * cutoff > minBox
  /\ LET maxSafeCutoff == minBox \div 2 - GridPerUnit \div 100
     IN  2 * maxSafeCutoff * maxSafeCutoff < latticeConstant * latticeConstant

LJLiquidCutoff(cutoff, minBox) ==
  IF 2 * cutoff > minBox THEN minBox \div 2 - GridPerUnit \div 100
  ELSE cutoff

\* SimulationBox.fromDimensions with the default origin and periodicity
fromDimensions(lx, ly, lz) ==
  [ l |-> << lx, ly, lz >>, origin |-> << 0, 0, 0 >>,
    periodic |-> << TRUE, TRUE, TRUE >> ]

\* SimulationState.initializeFCC for one unit cell: the four basis sites
initializeFCC(s, a) ==
  [s EXCEPT !.positions =
     [k \in 0..11 |->
        << 0, 0, 0,  a \div 2, a \div 2, 0,
           a \div 2, 0, a \div 2,  0, a \div 2, a \div 2 >>[k + 1]],
            !.box = fromDimensions(a, a, a)]

\* SimulationState.initializeVelocities: a seeded draw with the centre of
\* mass motion removed; one draw of zero total momentum stands for it
initializeVelocities(s, g) ==
  [s EXCEPT !.velocities =
     [k \in 0..11 |-> << g, 0, 0,  0 - g, 0, 0,  0, g, 0,  0, 0 - g, 0 >>[k + 1]]]

\* NeighborList.updateBox, VelocityVerlet.updateBox, PairLJCut.updateBox
updateBox(s) ==
  Bind(CellListUpdateBox(s.box, s.numAtoms, s.cutoff + s.skin,
                         DefaultMaxAtomsPerCell), LAMBDA cl :
    [s EXCEPT !.cellList = cl,
              !.cellCounts = cl.cellCounts, !.cellAtoms = cl.cellAtoms,
              !.neighParams = NeighborListUpdateParams(s.box, cl,
                                s.numAtoms, s.cutoff + s.skin,
                                s.maxNeighbors),
              !.integParams = IntegratorUpdateParams(s.box, s.numAtoms),
              !.pairParams = PairUpdateParams(s.box, s.numAtoms,
                                              s.maxNeighbors)])

\* Simulation.createLJLiquid(1, 1, 1, {cutoff}) with sigma = 1: skin,
\* maxNeighbors and neighborRebuildEvery are the defaults of create
createLJLiquid(a, cutoff, g, binOrder, dev) ==
  Bind(Bind(Bind(Bind(Bind(
    Create([ numAtoms |-> 4, box |-> fromDimensions(a, a, a),
             cutoff |-> LJLiquidCutoff(cutoff, a),
             skin |-> (3 * GridPerUnit) \div 10,
             maxNeighbors |-> 128, neighborRebuildEvery |-> 10 ]),
    LAMBDA s0 :
      initializeVelocities(
        [initializeFCC(s0, a) EXCEPT
           !.coeff = SetCoeff(GridPerUnit, s0.cutoff)], g)),
    LAMBDA s1 : updateBox(s1)),
    LAMBDA boxed : neighborListBuild(boxed, binOrder, dev)),
    LAMBDA s2 :
      savePositionsForRebuild(
        [s2 EXCEPT !.lastNeighRebuild = 0, !.rebuilt = TRUE])),
    LAMBDA s3 : compute(s3, dev))

----------------------------------------------------------------------------
(* The state machine *)

VARIABLES
  device,               \* the device's out-of-bounds and u32(NaN) behaviour
  numAtoms, box, cutoff, skin, maxNeighbors, neighRebuildEvery,
  masses, coeff, cellList, neighParams, integParams, pairParams,
  currentStep, lastNeighRebuild,
  positions, velocities, forces,
  lastRebuildPositions, maxDisplacementSq,
  cellCounts, cellAtoms, atomCell, neighborList, numNeighbors,
  trace,                \* the dispatches of the last call, in order
  lastOp,               \* the last call: its kind and what it decided
  nlWritten, nlDropped, \* per row: ids stored / candidates dropped, last build
  dispSeen, scaledSeen, \* true max displacement^2 since the reset, and the
                        \* max of its fixed-point conversions
  forcePending,         \* forceNeighborRebuild was called, no step since
  forceCalls,           \* number of forceNeighborRebuild calls so far
  probe                 \* the argument and result of a function under test

configVars == << device, numAtoms, box, cutoff, skin, maxNeighbors,
                 neighRebuildEvery, masses, coeff, cellList, neighParams,
                 integParams, pairParams >>

stateVars == << currentStep, lastNeighRebuild, positions, velocities, forces,
                lastRebuildPositions, maxDisplacementSq, cellCounts,
                cellAtoms, atomCell, neighborList, numNeighbors >>

ghostVars == << trace, lastOp, nlWritten, nlDropped, dispSeen, scaledSeen,
                forcePending, forceCalls >>

vars == << configVars, stateVars, ghostVars, probe >>

\* the simulation held by the variables, with the per-call observers cleared
Sim ==
  [ numAtoms |-> numAtoms, box |-> box, cutoff |-> cutoff, skin |-> skin,
    maxNeighbors |-> maxNeighbors, neighRebuildEvery |-> neighRebuildEvery,
    masses |-> masses, coeff |-> coeff, cellList |-> cellList,
    neighParams |-> neighParams, integParams |-> integParams,
    pairParams |-> pairParams,
    currentStep |-> currentStep, lastNeighRebuild |-> lastNeighRebuild,
    positions |-> positions, velocities |-> velocities, forces |-> forces,
    lastRebuildPositions |-> lastRebuildPositions,
    maxDisplacementSq |-> maxDisplacementSq,
    cellCounts |-> cellCounts, cellAtoms |-> cellAtoms,
    atomCell |-> atomCell, neighborList |-> neighborList,
    numNeighbors |-> numNeighbors,
    trace |-> << >>, checked |-> FALSE, stale |-> FALSE, rebuilt |-> FALSE,
    seenAtCheck |-> 0, scaledAtCheck |-> 0,
    nlWritten |-> nlWritten, nlDropped |-> nlDropped,
    dispSeen |-> dispSeen, scaledSeen |-> scaledSeen ]

OpRecord(kind, diff, s, forced) ==
  [ kind |-> kind, diff |-> diff, checked |-> s.checked, stale |-> s.stale,
    rebuilt |-> s.rebuilt, forced |-> forced,
    seen |-> s.seenAtCheck, scaled |-> s.scaledAtCheck ]

NoProbe == [ fn |-> "none", L |-> 0, d |-> 0, out |-> 0 ]

\* the variables hold the simulation s, constructed by the factory `kind`
InitFrom(s, dev, kind) ==
  /\ device = dev
  /\ numAtoms = s.numAtoms /\ box = s.box /\ cutoff = s.cutoff
  /\ skin = s.skin /\ maxNeighbors = s.maxNeighbors
  /\ neighRebuildEvery = s.neighRebuildEvery
  /\ masses = s.masses /\ coeff = s.coeff /\ cellList = s.cellList
  /\ neighParams = s.neighParams /\ integParams = s.integParams
  /\ pairParams = s.pairParams
  /\ currentStep = s.currentStep /\ lastNeighRebuild = s.lastNeighRebuild
  /\ positions = s.positions /\ velocities = s.velocities
  /\ forces = s.forces
  /\ lastRebuildPositions = s.lastRebuildPositions
  /\ maxDisplacementSq = s.maxDisplacementSq
  /\ cellCounts = s.cellCounts /\ cellAtoms = s.cellAtoms
  /\ atomCell = s.atomCell /\ neighborList = s.neighborList
  /\ numNeighbors = s.numNeighbors
  /\ trace = s.trace
  /\ lastOp = OpRecord(kind, 0, s, FALSE)
  /\ nlWritten = s.nlWritten /\ nlDropped = s.nlDropped
  /\ dispSeen = s.dispSeen /\ scaledSeen = s.scaledSeen
  /\ forcePending = FALSE /\ forceCalls = 0

\* the variables after a call that turned Sim into s
Commit(s, kind) ==
  /\ currentStep' = s.currentStep /\ lastNeighRebuild' = s.lastNeighRebuild
  /\ positions' = s.positions /\ velocities' = s.velocities
  /\ forces' = s.forces
  /\ lastRebuildPositions' = s.lastRebuildPositions
  /\ maxDisplacementSq' = s.maxDisplacementSq
  /\ cellCounts' = s.cellCounts /\ cellAtoms' = s.cellAtoms
  /\ atomCell' = s.atomCell /\ neighborList' = s.neighborList
  /\ numNeighbors' = s.numNeighbors
  /\ trace' = s.trace
  /\ lastOp' = OpRecord(kind, currentStep - lastNeighRebuild, s, forcePending)
  /\ nlWritten' = s.nlWritten /\ nlDropped' = s.nlDropped
  /\ dispSeen' = s.dispSeen /\ scaledSeen' = s.scaledSeen
  /\ UNCHANGED << configVars, probe >>

\* A two-atom system set up through create + setPositions/setMasses as
\* fromLAMMPSData does, and given velocities: box 9 x 3 x 3, periodic in x,
\* cutoff 2, skin 1 (three cells along x), rows of two neighbors, interval 2.
\* Atom 0 starts at x = 2.5 and moves by (1/4, 1/GridPerUnit, 0) per step,
\* atom 1 rests at x = 5.
DataConfig ==
  [ numAtoms |-> 2,
    box |-> [ l |-> << 9 * GridPerUnit, 3 * GridPerUnit, 3 * GridPerUnit >>,
              origin |-> << 0, 0, 0 >>,
              periodic |-> << TRUE, FALSE, FALSE >> ],
    cutoff |-> 2 * GridPerUnit, skin |-> GridPerUnit,
    maxNeighbors |-> 2, neighborRebuildEvery |-> 2 ]

DataPositions ==
  [k \in 0..5 |-> << (5 * GridPerUnit) \div 2, GridPerUnit, GridPerUnit,
                     5 * GridPerUnit, GridPerUnit, GridPerUnit >>[k + 1]]

DataVelocities ==
  [k \in 0..5 |-> << GridPerUnit \div 4, 1, 0,  0, 0, 0 >>[k + 1]]

DataSim ==
  Bind(fromLAMMPSData(DataConfig, DataPositions, [i \in 0..1 |-> 1]),
       LAMBDA s : setVelocities(s, DataVelocities))

InitData ==
  /\ \E dev \in Devices : \E s \in { DataSim } :
       InitFrom(s, dev, "fromLAMMPSData")
  /\ probe = NoProbe

\* createLJLiquid(1, 1, 1) with lattice constant 4 and cutoff 1
InitLJLiquid ==
  /\ ~ LJLiquidThrows(GridPerUnit, 4 * GridPerUnit, 4 * GridPerUnit)
  /\ \E dev \in Devices, binOrder \in BinOrders(4) :
       \E s \in { createLJLiquid(4 * GridPerUnit, GridPerUnit,
                                  GridPerUnit \div 10, binOrder, dev) } :
         InitFrom(s, dev, "createLJLiquid")
  /\ probe = NoProbe

Init == InitData \/ InitLJLiquid

\* The caller.  An application drives the simulation with one stepping
\* method at a time, as run() and runWithProfiling() do, and changes the
\* method only right after construction or forceNeighborRebuild(); forced
\* rebuilds are rare, at most one per eight steps of the run length.
CallerMay(kind) ==
  lastOp.kind \in { kind, "forceNeighborRebuild", "fromLAMMPSData",
                    "createLJLiquid" }

MaxForceCalls == MaxSteps \div 8

\* the thread orders worth distinguishing for a call: one when the call
\* cannot reach a build
MayRebuild(kind, s) ==
  IF kind = "step" THEN FixedIntervalDue(s)
  ELSE DisplacementCheckDue(s) \/ FallbackDue(s)

OrdersFor(kind, s) ==
  IF MayRebuild(kind, s) THEN BinOrders(s.numAtoms)
  ELSE { CHOOSE o \in BinOrders(s.numAtoms) : o[1] = 0 }

Step ==
  /\ currentStep < MaxSteps
  /\ CallerMay("step")
  /\ \E sim \in { Sim } : \E binOrder \in OrdersFor("step", sim) :
       \E s \in { step(sim, binOrder, device) } : Commit(s, "step")
  /\ forcePending' = FALSE
  /\ UNCHANGED forceCalls

StepAsync ==
  /\ currentStep < MaxSteps
  /\ CallerMay("stepAsync")
  /\ \E sim \in { Sim } : \E binOrder \in OrdersFor("stepAsync", sim) :
       \E s \in { stepAsync(sim, binOrder, device) } : Commit(s, "stepAsync")
  /\ forcePending' = FALSE
  /\ UNCHANGED forceCalls

StepWithProfiling ==
  /\ currentStep < MaxSteps
  /\ CallerMay("stepWithProfiling")
  /\ \E sim \in { Sim } :
       \E binOrder \in OrdersFor("stepWithProfiling", sim) :
         \E s \in { stepWithProfiling(sim, binOrder, device) } :
           Commit(s, "stepWithProfiling")
  /\ forcePending' = FALSE
  /\ UNCHANGED forceCalls

ForceNeighborRebuild ==
  /\ forceCalls < MaxForceCalls
  /\ \E s \in { forceNeighborRebuild(Sim) } :
       Commit(s, "forceNeighborRebuild")
  /\ forcePending' = TRUE
  /\ forceCalls' = forceCalls + 1

Next == Step \/ StepAsync \/ StepWithProfiling \/ ForceNeighborRebuild

Spec == Init /\ [][Next]_vars

----------------------------------------------------------------------------
(* The minimum-image functions on their own: every raw difference d up to  *)
(* MaxRawDelta in magnitude, on periodic axes of a few lengths.            *)

MaxRawDelta == 26

ProbeLengths == {3, 4, 10}

ProbeParams(L) ==
  [ boxL |-> << L, L, L >>, periodic |-> << U32(1), U32(1), U32(1) >> ]

InitMinImage ==
  /\ \E s \in { DataSim } :
       InitFrom(s, [ oob |-> "zero", nanU32 |-> 0 ], "fromLAMMPSData")
  /\ probe \in [ fn : {"none"}, L : ProbeLengths,
                 d : (0 - MaxRawDelta)..MaxRawDelta, out : {0} ]

\* minimumImage of the neighbor-list shader
CallMinimumImage ==
  /\ probe.fn = "none"
  /\ probe' = [probe EXCEPT !.fn = "minimumImage",
                 !.out = minimumImage(ProbeParams(probe.L), probe.d, 0, 0)[1]]
  /\ UNCHANGED << configVars, stateVars, ghostVars >>

\* minimumImage of the pair shader
CallPairMinimumImage ==
  /\ probe.fn = "none"
  /\ probe' = [probe EXCEPT !.fn = "pairMinimumImage",
                 !.out = PairMinimumImage(ProbeParams(probe.L),
                                          0, probe.d, 0)[2]]
  /\ UNCHANGED << configVars, stateVars, ghostVars >>

\* minimumImageDisplacement of the integrator shader
CallMinimumImageDisplacement ==
  /\ probe.fn = "none"
  /\ probe' = [probe EXCEPT !.fn = "minimumImageDisplacement",
                 !.out = minimumImageDisplacement(ProbeParams(probe.L),
                                                  0, 0, probe.d)[3]]
  /\ UNCHANGED << configVars, stateVars, ghostVars >>

NextMinImage ==
  CallMinimumImage \/ CallPairMinimumImage \/ CallMinimumImageDisplacement

SpecMinImage == InitMinImage /\ [][NextMinImage]_vars

----------------------------------------------------------------------------
(* Properties *)

StepKinds == { "step", "stepAsync", "stepWithProfiling" }

DisplacementKinds == { "stepAsync", "stepWithProfiling" }

WithoutRebuild == << "integrateInitial", "compute", "integrateFinal" >>

WithRebuild ==
  << "integrateInitial", "cellList.build", "neighborList.build",
     "savePositionsForRebuild", "compute", "integrateFinal" >>

\* the last call dispatched a neighbor-list build
Built == \E k \in 1..Len(trace) : trace[k] = "neighborList.build"

\* the rebuild condition of the policy the last step ran under
RebuildCondition ==
  IF lastOp.kind = "step" THEN lastOp.diff >= neighRebuildEvery
  ELSE \/ lastOp.checked /\ lastOp.stale
       \/ lastOp.diff >= 5 * neighRebuildEvery

\* C1: every step dispatches integrateInitial, then (only if the rebuild
\* condition holds) cell-list build, neighbor-list build and
\* savePositionsForRebuild, then compute, then integrateFinal; no other
\* order occurs and compute and integrateFinal are never omitted.
C1_StepOrder ==
  lastOp.kind \in StepKinds =>
    /\ trace \in { WithoutRebuild, WithRebuild }
    /\ trace = WithRebuild => RebuildCondition

C1_Witness ==
  /\ lastOp.kind = "stepWithProfiling"
  /\ trace = WithRebuild
  /\ lastOp.checked /\ ~ lastOp.stale

\* C2: under the displacement-triggered policy a step rebuilds whenever
\* currentStep - lastNeighRebuild >= 5 * neighRebuildEvery at that step,
\* whatever the staleness test returns.
C2_FallbackRebuilds ==
  (lastOp.kind \in DisplacementKinds
     /\ lastOp.diff >= 5 * neighRebuildEvery) => Built

\* C24: under the displacement-triggered policy a step evaluates the
\* staleness test exactly when currentStep - lastNeighRebuild is a multiple
\* of displacementCheckEvery at that step, and a step whose test reports
\* stale rebuilds the list in that step, before compute.
C24_CheckSchedule ==
  lastOp.kind \in DisplacementKinds =>
    /\ lastOp.checked <=> lastOp.diff % displacementCheckEvery = 0
    /\ (lastOp.checked /\ lastOp.stale) => trace = WithRebuild

\* a step on a multiple of the interval whose test reported stale
C24_Witness ==
  /\ lastOp.kind \in DisplacementKinds
  /\ lastOp.diff % displacementCheckEvery = 0
  /\ lastOp.checked /\ lastOp.stale
  /\ trace = WithRebuild

\* the first step of a simulation made by fromLAMMPSData, which (like
\* create) returns without building the neighbor list
FirstStepAfterData ==
  /\ lastOp.kind \in StepKinds
  /\ currentStep = 1
  /\ numAtoms = DataConfig.numAtoms

\* C25: the force computation of the first step reads a neighbor list that
\* has been built: the factory built it (createLJLiquid) or the step builds
\* it before compute.
C25_ListBuiltBeforeCompute == FirstStepAfterData => Built

\* C27: under the displacement-triggered policy, once the list has been
\* built, the largest displacement d of any particle from the positions the
\* list in use was built from satisfies 2 * d <= skin at every compute.
C27_NeverStaleAtCompute ==
  (/\ lastOp.kind \in DisplacementKinds
   /\ lastRebuildPositions # Zeros(3 * numAtoms)
   /\ dispSeen # NaN)
    => 4 * dispSeen <= skin * skin

\* the thread order in which the bin threads run in index order
AscendingOrder ==
  CHOOSE o \in BinOrders(numAtoms) : o[1] = 0

\* C31: called on the same simulation, stepAsync and stepWithProfiling take
\* the same rebuild decision.
C31_SameRebuildDecision ==
  stepAsync(Sim, AscendingOrder, device).rebuilt
    = stepWithProfiling(Sim, AscendingOrder, device).rebuilt

\* the particle data that the operation taking a to b leaves alone
SameParticleData(a, b) ==
  /\ b.positions = a.positions /\ b.velocities = a.velocities
  /\ b.forces = a.forces /\ b.masses = a.masses

\* the frame of the phases of a step that starts with integrateInitial
\* giving a: the build, the staleness check with the rebuild it may start
\* and the kinetic-energy reduction write no particle data, compute writes
\* forces only and integrateFinal velocities only
PhaseFrames(a) ==
  /\ a.forces = forces /\ a.masses = masses
  /\ \E ke \in { KineticEnergyCompute(a, device) } :
       ke.velocities = a.velocities /\ ke.masses = a.masses
  /\ \E k \in { CheckDisplacement(a, AscendingOrder, device) } :
       /\ SameParticleData(a, k)
       /\ \E b \in { IF k.rebuilt THEN k
                      ELSE rebuildNeighborList(a, AscendingOrder, device) } :
            /\ SameParticleData(a, b)
            /\ \E c \in { compute(b, device) } :
                 /\ c.positions = b.positions /\ c.velocities = b.velocities
                 /\ c.masses = b.masses
                 /\ \E e \in { integrateFinal(c) } :
                      /\ e.positions = c.positions /\ e.forces = c.forces
                      /\ e.masses = c.masses

\* C35: in a step only integrateInitial and integrateFinal write positions
\* or velocities and only compute writes forces; the list build, the
\* staleness check and the kinetic-energy reduction write no positions,
\* velocities, forces or masses.
C35_PhaseFrames ==
  \E a \in { integrateInitial(Sim, device) } : PhaseFrames(a)

\* a step that moves a particle, finds the list stale and rebuilds it
C35_Witness ==
  \E a \in { integrateInitial(Sim, device) } :
    /\ a.positions # positions
    /\ CheckDisplacement(a, AscendingOrder, device).rebuilt
    /\ a.lastRebuildPositions # a.positions

\* C3: the step that follows forceNeighborRebuild() rebuilds the neighbor
\* list, whichever stepping method it is.
C3_ForcedStepRebuilds ==
  (lastOp.kind \in StepKinds /\ lastOp.forced) => Built

\* C4: under the fixed-interval policy (step()) a step rebuilds exactly when
\* currentStep - lastNeighRebuild >= neighRebuildEvery at that step.
C4_FixedInterval ==
  lastOp.kind = "step" => (Built <=> lastOp.diff >= neighRebuildEvery)

C4_Witness ==
  /\ lastOp.kind = "step"
  /\ lastOp.diff = neighRebuildEvery
  /\ Built

\* C5: every neighbor-list build of the orchestrator, the initial one of
\* createLJLiquid included, is directly followed by savePositionsForRebuild:
\* when the call returns the baseline is the positions the list was built
\* from and the displacement accumulator is zero.
C5_BuildThenSave ==
  /\ \A k \in 1..Len(trace) :
       trace[k] = "neighborList.build" =>
         k < Len(trace) /\ trace[k + 1] = "savePositionsForRebuild"
  /\ Built => lastRebuildPositions = positions /\ maxDisplacementSq = 0

C5_Witness ==
  /\ lastOp.kind \in StepKinds
  /\ Built
  /\ \E k \in DOMAIN positions : positions[k] # 0

\* the ids stored in row i of the neighbor list
Row(i) ==
  { neighborList[i * maxNeighbors + n] :
      n \in 0..(Min(numNeighbors[i], maxNeighbors) - 1) }

Atoms == 0..(numAtoms - 1)

\* squared separation of the particles i and j
SepSq(i, j) == TrueSepSq(box, PointOf(positions, i), PointOf(positions, j))

\* the cell of the grid that contains particle i
TrueCellOf(i) ==
  [a \in 1..3 |->
     LET n == << cellList.numCellsX, cellList.numCellsY,
                 cellList.numCellsZ >>[a]
         x == positions[i * 3 + a - 1]
     IN  IF x = NaN THEN 0
         ELSE Max(0, Min(n - 1, ((x - box.origin[a]) * n) \div box.l[a]))]

\* no cell holds more particles than a cell has slots and no particle has
\* more particles within the list radius than a row has entries
NoOverflow ==
  /\ \A i \in Atoms :
       Cardinality({ j \in Atoms : TrueCellOf(j) = TrueCellOf(i) })
         <= cellList.maxAtomsPerCell
  /\ \A i \in Atoms :
       Cardinality({ j \in Atoms \ {i} :
                       FLt(SepSq(i, j), (cutoff + skin) * (cutoff + skin)) })
         <= maxNeighbors

\* the linear index of the cell that contains particle i
LinearCellOf(i) ==
  TrueCellOf(i)[1] + TrueCellOf(i)[2] * cellList.numCellsX
    + TrueCellOf(i)[3] * cellList.numCellsX * cellList.numCellsY

\* the particles whose position maps to cell c
MembersOf(c) == { i \in Atoms : LinearCellOf(i) = c }

\* C28: after the bin pass, under either order of the slot claims, the
\* slots 0 .. min(count, maxAtomsPerCell) - 1 of every cell's own range hold
\* distinct particles of that cell, and no more particles are stored than
\* the cell has slots.
C28_SlotsOfOwnCell ==
  Built =>
    \A c \in 0..(cellList.numCells - 1) :
      \A k \in 0..(Min(cellCounts[c], cellList.maxAtomsPerCell) - 1) :
        /\ cellAtoms[c * cellList.maxAtomsPerCell + k] \in MembersOf(c)
        /\ \A m \in 0..(k - 1) :
             cellAtoms[c * cellList.maxAtomsPerCell + m]
               # cellAtoms[c * cellList.maxAtomsPerCell + k]

\* C29: after a build the count of every cell is the number of particles
\* whose position maps to the cell.
C29_CountsMatchMembers ==
  Built =>
    \A c \in 0..(cellList.numCells - 1) :
      cellCounts[c] = Cardinality(MembersOf(c))

\* C6: right after a build in which no cell and no row overflowed (and the
\* kernel dropped no candidate), every two distinct particles closer than
\* the cutoff are in each other's neighbor list.
C6_FreshListComplete ==
  (Built /\ NoOverflow /\ \A i \in Atoms : nlDropped[i] = 0) =>
    \A i \in Atoms : \A j \in Atoms \ {i} :
      FLt(SepSq(i, j), cutoff * cutoff) => j \in Row(i)

\* C7: the list is symmetric: whenever particle j is listed as a neighbor
\* of particle i, i is listed as a neighbor of j.
C7_Symmetric ==
  \A i \in Atoms : \A j \in Atoms : j \in Row(i) => i \in Row(j)

\* C8 as stated: needsNeighborRebuild(skin) is true exactly when
\* 2 * sqrt(m) > skin, m being the largest squared minimum-image
\* displacement from the baseline seen by integrateInitial since the reset.
C8_ExactCriterion ==
  lastOp.checked =>
    (lastOp.stale <=>
       (lastOp.seen # NaN /\ lastOp.seen > (skin * skin) \div 4))

\* C8: needsNeighborRebuild(skin) is true exactly when 2 * sqrt(a / 10^6)
\* > skin, a being the largest fixed-point value u32(10^6 * d^2) of the
\* squared minimum-image displacements d^2 from the baseline seen by
\* integrateInitial since the reset.
C8_FixedPointCriterion ==
  lastOp.checked =>
    (lastOp.stale <=>
       lastOp.scaled
         > (skin * skin) \div (4 * ((GridPerUnit * GridPerUnit) \div 1000000)))

\* a check at which the displacement exceeds skin / 2 by less than the
\* resolution of the accumulator
C8_Witness ==
  /\ lastOp.checked
  /\ lastOp.seen # NaN
  /\ lastOp.seen > (skin * skin) \div 4
  /\ ~ lastOp.stale

\* C9: for every particle i the build leaves numNeighbors[i] <= maxNeighbors,
\* has stored exactly the first numNeighbors[i] entries of row i and nothing
\* outside it, and has dropped candidates only from a full row.
C9_RowCapacity ==
  \A i \in Atoms :
    /\ numNeighbors[i] <= maxNeighbors
    /\ nlWritten[i] = { i * maxNeighbors + n : n \in 0..(numNeighbors[i] - 1) }
    /\ nlDropped[i] > 0 => numNeighbors[i] = maxNeighbors

C9_Witness ==
  /\ Built
  /\ \E i \in Atoms : nlDropped[i] > 0 /\ numNeighbors[i] = maxNeighbors

\* C10: on a periodic axis of length L the minimum image of every raw
\* difference d lies in [-L/2, L/2] and is congruent to d modulo L.
C10_MinimumImage ==
  probe.fn # "none" =>
    /\ 2 * probe.out <= probe.L
    /\ 2 * probe.out >= 0 - probe.L
    /\ (probe.out - probe.d) % probe.L = 0

\* the smallest box dimension
MinBox == Min(box.l[1], Min(box.l[2], box.l[3]))

\* C11: a constructed simulation never runs with a cutoff above half the
\* minimum box dimension: a larger requested cutoff was either rejected or
\* reduced to at most half the minimum box dimension by the factory.
C11_CutoffWithinHalfBox ==
  lastOp.kind \in { "fromLAMMPSData", "createLJLiquid" } =>
    2 * cutoff <= MinBox

----------------------------------------------------------------------------
(* The pair kernel on its own: PairLJCut.compute on three atoms in a       *)
(* periodic 10 x 10 x 10 box with sigma = 1 and cutoff 5/2.  Atom 1 is at  *)
(* (1, 1, 1), atom 2 at (1, 1, 3); atom 0 is on the line through atom 1    *)
(* along x.  The neighbor rows and the force buffer hold whatever an       *)
(* earlier build or step left there.                                       *)

PairConfig ==
  [ numAtoms |-> 3,
    box |-> [ l |-> << 10 * GridPerUnit, 10 * GridPerUnit, 10 * GridPerUnit >>,
              origin |-> << 0, 0, 0 >>,
              periodic |-> << TRUE, TRUE, TRUE >> ],
    cutoff |-> (5 * GridPerUnit) \div 2, skin |-> (3 * GridPerUnit) \div 10,
    maxNeighbors |-> 2, neighborRebuildEvery |-> 10 ]

\* x of atom 0: on atom 1, inside the repulsive core, in the attractive
\* well, beyond the cutoff, and across the periodic boundary
PairXs ==
  { GridPerUnit, 2 * GridPerUnit, 3 * GridPerUnit, (9 * GridPerUnit) \div 2,
    (19 * GridPerUnit) \div 2 }

PairPositions(x0) ==
  [k \in 0..8 |->
     << x0, GridPerUnit, GridPerUnit,
        GridPerUnit, GridPerUnit, GridPerUnit,
        GridPerUnit, GridPerUnit, 3 * GridPerUnit >>[k + 1]]

\* a row of the list: its valid entries; the slots behind them keep an id
\* of an earlier build
PairRows == { << >> } \cup { << j >> : j \in 0..2 }
              \cup { << j, k >> : j \in 0..2, k \in 0..2 }

\* the rows of atoms 1 and 2
PairOtherRows ==
  { << << 0 >>, << >> >>, << << 0, 2 >>, << 1, 0 >> >>,
    << << >>, << 1 >> >>, << << 2, 2 >>, << 0 >> >> }

PairList(rows) ==
  [k \in 0..5 |-> IF (k % 2) + 1 <= Len(rows[(k \div 2) + 1])
                  THEN rows[(k \div 2) + 1][(k % 2) + 1] ELSE 2]

PairCounts(rows) == [i \in 0..2 |-> Len(rows[i + 1])]

\* the force buffer before the call
PairOldForces == { [k \in 0..8 |-> 0], [k \in 0..8 |-> 7 - k] }

PairSim(x0, rows, old) ==
  [Create(PairConfig) EXCEPT
     !.coeff = SetCoeff(GridPerUnit, (5 * GridPerUnit) \div 2),
     !.masses = [i \in 0..2 |-> 1],
     !.positions = PairPositions(x0),
     !.neighborList = PairList(rows), !.numNeighbors = PairCounts(rows),
     !.forces = old]

InitPair ==
  /\ \E dev \in Devices, x0 \in PairXs, row0 \in PairRows,
        others \in PairOtherRows, old \in PairOldForces :
       \E s \in { PairSim(x0, << row0 >> \o others, old) } :
         InitFrom(s, dev, "pairScenario")
  /\ probe = NoProbe

\* PairLJCut.compute on the buffers as they are
Compute ==
  /\ lastOp.kind = "pairScenario"
  /\ \E sim \in { Sim } : \E s \in { compute(sim, device) } :
       Commit(s, "compute")
  /\ UNCHANGED << forcePending, forceCalls >>

NextPair == Compute

SpecPair == InitPair /\ [][NextPair]_vars


\* entry n (from 0) of atom i's neighbor row
RowEntry(i, n) == neighborList[i * maxNeighbors + n]

\* what neighbor j contributes to the force on atom i
PairContribution(i, j) ==
  LET pi == PointOf(positions, i)
      pj == PointOf(positions, j)
      delta == PairMinimumImage(pairParams, FSub(pi[1], pj[1]),
                                FSub(pi[2], pj[2]), FSub(pi[3], pj[3]))
      rsq == NormSq(delta)
      fpair == LJPair(rsq, coeff)
  IN  IF FLt(rsq, coeff.cutsq)
      THEN << FMul(delta[1], fpair), FMul(delta[2], fpair),
              FMul(delta[3], fpair) >>
      ELSE << 0, 0, 0 >>

\* the sum of the contributions of the first n entries of atom i's row
RECURSIVE RowForce(_, _)
RowForce(i, n) ==
  IF n = 0 THEN << 0, 0, 0 >>
  ELSE LET rest == RowForce(i, n - 1)
           c == PairContribution(i, RowEntry(i, n - 1))
       IN  << FAdd(rest[1], c[1]), FAdd(rest[2], c[2]), FAdd(rest[3], c[3]) >>

\* C12: after compute the force on every atom i is the sum of the
\* contributions of exactly the entries of i's own neighbor row that lie
\* within the cutoff, whatever the force buffer held before, and no thread
\* of zeroForces or computeForces writes the force of another atom.
C12_ForcesFromOwnRow ==
  lastOp.kind = "compute" =>
    /\ \A i \in Atoms : PointOf(forces, i) = RowForce(i, numNeighbors[i])
    /\ \A i \in 0..numAtoms : \A k \in DOMAIN forces :
         k \div 3 # i =>
           /\ ZeroForcesThread(pairParams, forces, i)[k] = forces[k]
           /\ ComputeForcesThread(pairParams, numAtoms, positions,
                neighborList, numNeighbors, coeff, forces, i, device)[k]
                = forces[k]

C12_Witness ==
  /\ lastOp.kind = "compute"
  /\ positions[0] = 3 * GridPerUnit
  /\ numNeighbors[0] = 2 /\ RowEntry(0, 0) = 2 /\ RowEntry(0, 1) = 1
  /\ PointOf(forces, 0) = << 0 - 2 * GridPerUnit, 0, 0 >>
  /\ numNeighbors[1] = 0 /\ PointOf(forces, 1) = << 0, 0, 0 >>

\* atoms 0 and 1 are each the other's only neighbor
IsolatedPair ==
  /\ numNeighbors[0] = 1 /\ RowEntry(0, 0) = 1
  /\ numNeighbors[1] = 1 /\ RowEntry(1, 0) = 0

\* a == -b on f32 values: false as soon as one of them is a NaN
NegatedEq(a, b) == a # NaN /\ b # NaN /\ a = 0 - b

----------------------------------------------------------------------------
(* SimulationState on its own: the host arrays, the device buffers they    *)
(* are uploaded to, and the calls that fill them.                          *)

\* seededRandom: multiplier, increment and mask of the generator
LcgMultiplier == 1103515245

LcgIncrement == 12345

LcgMask == 2147483647

\* A non-negative number below 2^62 is a pair <<h, l>> standing for
\* h * 2^31 + l with l <= LcgMask.  add31 adds n <= LcgMask to it.
Add31(x, n) ==
  IF x[2] > LcgMask - n THEN << x[1] + 1, x[2] - (LcgMask - n) - 1 >>
  ELSE << x[1], x[2] + n >>

\* a JavaScript number holds 53 significant bits: a result of e + 1 > 53
\* bits is rounded to a multiple of 2^(e - 52), ties to even
RoundToDouble(x) ==
  IF x[1] < Pow2(22) THEN x
  ELSE LET k == Log2Floor(x[1]) - 21
           low == x[2] % Pow2(k)
           up == \/ low > Pow2(k - 1)
                 \/ low = Pow2(k - 1) /\ (x[2] \div Pow2(k)) % 2 = 1
       IN  IF up THEN Add31(<< x[1], x[2] - low >>, Pow2(k))
           ELSE << x[1], x[2] - low >>

\* seed * 1103515245 as a JavaScript number
LcgProduct(seed) ==
  LET s1 == seed \div Two16
      s0 == seed % Two16
      a1 == LcgMultiplier \div Two16
      a0 == LcgMultiplier % Two16
      mid == s1 * a0 + s0 * a1
  IN  Bind(Add31(<< 2 * s1 * a1 + mid \div 32768,
                    (mid % 32768) * Two16 >>, s0 * a0), RoundToDouble)

\* variant: the recurrence in exact integer arithmetic modulo 2^31
LcgNextExact(seed) ==
  Bind(MulU32(U32(seed), U32(LcgMultiplier)), LAMBDA p :
    Add31(<< 0, (p[1] % 32768) * Two16 + p[2] >>, LcgIncrement)[2])

\* the closure returned by seededRandom, called once: the new value of the
\* captured seed, (seed * 1103515245 + 12345) & 0x7fffffff.  The number it
\* returns is seed / 0x7fffffff.
LcgNext(seed) ==
  Bind(Bind(LcgProduct(seed), LAMBDA p : Add31(p, LcgIncrement)),
       LAMBDA q : RoundToDouble(q)[2])


\* the first call of a closure whose seed is the fraction m / 2^30: the
\* product and the sum are doubles with 30 binary places, and & 0x7fffffff
\* drops the places and keeps the low 31 bits of the integer part
LcgNextOfFraction(m) ==
  Bind(Bind(Bind(LcgProduct(m),
    LAMBDA p : Add31(<< p[1] + LcgIncrement \div 2, p[2] >>,
                     (LcgIncrement % 2) * Pow2(30))),
    LAMBDA q : RoundToDouble(q)),
    LAMBDA r : (r[1] % Pow2(30)) * 2 + r[2] \div Pow2(30))

\* the numbers the first count calls of a generator return, as the values
\* of its seed (the call returns seed / 0x7fffffff)
RECURSIVE LcgDraws(_, _)
LcgDraws(seed, count) ==
  IF count = 0 THEN << >>
  ELSE Bind(LcgNext(seed), LAMBDA s : << s >> \o LcgDraws(s, count - 1))

ArrayLen(a) == Cardinality(DOMAIN a)

\* TypedArray.prototype.set: the source is copied over the start of the
\* target
TypedArraySet(target, source) ==
  [k \in DOMAIN target |-> IF k \in DOMAIN source THEN source[k] ELSE target[k]]

Filled(len, v) == [k \in 0..(len - 1) |-> v]

\* new SimulationState: the host arrays, with masses 1, and the device
\* buffers, which createBuffer leaves zeroed.  A velocity is a tuple: <<v>>
\* for a given number v, and the terms it was computed from otherwise.
NewSimulationState(n) ==
  [ numAtoms |-> n,
    _positions |-> Filled(3 * n, 0), _velocities |-> Filled(3 * n, << 0 >>),
    _types |-> Filled(n, 0), _masses |-> Filled(n, 1),
    box |-> fromDimensions(10 * GridPerUnit, 10 * GridPerUnit,
                           10 * GridPerUnit),
    positionsBuffer |-> Filled(3 * n, 0),
    velocitiesBuffer |-> Filled(3 * n, << 0 >>),
    typesBuffer |-> Filled(n, 0), massesBuffer |-> Filled(n, 0),
    seed |-> 0, thrown |-> "none" ]

Throw(o, error) == [o EXCEPT !.thrown = error]

StateSetPositions(o, a) ==
  IF ArrayLen(a) # ArrayLen(o._positions) THEN Throw(o, "length mismatch")
  ELSE [o EXCEPT !._positions = TypedArraySet(@, a),
                 !.positionsBuffer = TypedArraySet(o._positions, a),
                 !.thrown = "none"]

StateSetVelocities(o, a) ==
  IF ArrayLen(a) # ArrayLen(o._velocities) THEN Throw(o, "length mismatch")
  ELSE [o EXCEPT !._velocities = TypedArraySet(@, a),
                 !.velocitiesBuffer = TypedArraySet(o._velocities, a),
                 !.thrown = "none"]

\* variant: no length check; set() copies a shorter source and rejects a
\* longer one
StateSetTypesUnchecked(o, a) ==
  IF ArrayLen(a) > ArrayLen(o._types) THEN Throw(o, "RangeError")
  ELSE [o EXCEPT !._types = TypedArraySet(@, a),
                 !.typesBuffer = TypedArraySet(o._types, a),
                 !.thrown = "none"]

StateSetTypes(o, a) ==
  IF ArrayLen(a) # ArrayLen(o._types) THEN Throw(o, "length mismatch")
  ELSE [o EXCEPT !._types = TypedArraySet(@, a),
                 !.typesBuffer = TypedArraySet(o._types, a),
                 !.thrown = "none"]

StateSetMasses(o, a) ==
  IF ArrayLen(a) # ArrayLen(o._masses) THEN Throw(o, "length mismatch")
  ELSE [o EXCEPT !._masses = TypedArraySet(@, a),
                 !.massesBuffer = TypedArraySet(o._masses, a),
                 !.thrown = "none"]


\* the arrays and the box as the lattice loops leave them: site idx of the
\* nx x ny x nz grid of cells, ix running fastest, holds `perCell` atoms
LatticeFill(o, nx, ny, nz, perCell, Site(_, _, _), lengths, type) ==
  LET written == perCell * nx * ny * nz
      Coord(k) ==
        LET idx == k \div 3
            cell == idx \div perCell
        IN  Site(idx % perCell, k % 3,
                 << cell % nx, (cell \div nx) % ny, cell \div (nx * ny) >>)
  IN  Bind([k \in DOMAIN o._positions |->
              IF k < 3 * written THEN Coord(k) ELSE o._positions[k]],
           LAMBDA pos :
      Bind([i \in DOMAIN o._types |->
              IF i < written THEN type ELSE o._types[i]], LAMBDA types :
        [o EXCEPT !._positions = pos, !._types = types,
                  !.box = fromDimensions(lengths[1], lengths[2], lengths[3]),
                  !.positionsBuffer = pos, !.typesBuffer = types,
                  !.thrown = "none"]))

\* variant: the size is compared after the lattice has been written
StateInitializeLatticeLateCheck(o, nx, ny, nz, spacing, type) ==
  Bind(LatticeFill(o, nx, ny, nz, 1,
         LAMBDA b, c, cell : ((2 * cell[c + 1] + 1) * spacing) \div 2,
         << nx * spacing, ny * spacing, nz * spacing >>, type),
       LAMBDA filled :
         IF nx * ny * nz # o.numAtoms
         THEN Throw(filled, "lattice size mismatch") ELSE filled)

\* SimulationState.initializeLattice: atom (ix, iy, iz) of the simple cubic
\* lattice sits at ((ix + 0.5) spacing, (iy + 0.5) spacing, ...)
StateInitializeLattice(o, nx, ny, nz, spacing, type) ==
  IF nx * ny * nz # o.numAtoms THEN Throw(o, "lattice size mismatch")
  ELSE LatticeFill(o, nx, ny, nz, 1,
         LAMBDA b, c, cell : ((2 * cell[c + 1] + 1) * spacing) \div 2,
         << nx * spacing, ny * spacing, nz * spacing >>, type)

\* the FCC basis, in halves of the lattice constant
FccBasis == << << 0, 0, 0 >>, << 1, 1, 0 >>, << 1, 0, 1 >>, << 0, 1, 1 >> >>

\* SimulationState.initializeFCC
StateInitializeFCC(o, nx, ny, nz, latticeConstant, type) ==
  IF 4 * nx * ny * nz # o.numAtoms THEN Throw(o, "lattice size mismatch")
  ELSE LatticeFill(o, nx, ny, nz, 4,
         LAMBDA b, c, cell :
           ((2 * cell[c + 1] + FccBasis[b + 1][c + 1]) * latticeConstant)
             \div 2,
         << nx * latticeConstant, ny * latticeConstant,
            nz * latticeConstant >>, type)


\* the default seed of initializeVelocities
DefaultSeed == 12345

\* variant: the generator continues from where the last one stopped
seededRandomContinued(o, seed) == IF o.seed = 0 THEN seed ELSE o.seed

\* seededRandom(seed): the variable the returned closure captures starts
\* as the argument
seededRandom(o, seed) == seed

\* SimulationState.initializeVelocities.  Atom i draws u1..u4; its
\* velocity components are functions of sigma = sqrt(temperature / mass)
\* and of (u1, u2), (u1, u2), (u3, u4), kept as the terms
\* <<temperature, mass, ua, ub, component>>; the centre-of-mass velocity
\* subtracted from component c is a function of all masses and of all
\* atoms' terms of that component.
StateInitializeVelocities(o, temperature, seed) ==
  Bind(LcgDraws(seededRandom(o, seed), 4 * o.numAtoms), LAMBDA u :
  Bind([k \in DOMAIN o._velocities |->
          << temperature, o._masses[k \div 3],
             u[4 * (k \div 3) + (IF k % 3 = 2 THEN 3 ELSE 1)],
             u[4 * (k \div 3) + (IF k % 3 = 2 THEN 4 ELSE 2)], k % 3 >>],
       LAMBDA raw :
  Bind([k \in DOMAIN o._velocities |->
          << raw[k],
             << o._masses,
                [i \in 0..(o.numAtoms - 1) |-> raw[3 * i + (k % 3)]] >> >>],
       LAMBDA v :
    [o EXCEPT !._velocities = v, !.velocitiesBuffer = v,
              !.seed = u[4 * o.numAtoms], !.thrown = "none"])))

\* The calls of a program on one SimulationState of four atoms that belongs
\* to a simulation with two atom types.  `call` is the last call and the
\* length or lattice size it was given; `runs` collects the arguments and
\* the result of every velocity initialisation.
StateArgLengths(n) == { n - 1, n, n + 1 }

MaxStateCalls == MaxSteps \div 3

InitState ==
  /\ \E s \in { DataSim } :
       InitFrom(s, [ oob |-> "zero", nanU32 |-> 0 ], "fromLAMMPSData")
  /\ probe = [ state |-> NewSimulationState(4), numTypes |-> 2,
               call |-> [ op |-> "new", size |-> 4 ], calls |-> 0,
               runs |-> {} ]

\* the object under test after a call
Called(o, op, size, runs) ==
  /\ probe.calls < MaxStateCalls
  /\ probe' = [probe EXCEPT !.state = o,
                            !.call = [ op |-> op, size |-> size ],
                            !.calls = @ + 1, !.runs = runs]
  /\ UNCHANGED << configVars, stateVars, ghostVars >>

SetPositions ==
  \E len \in StateArgLengths(12), x \in { GridPerUnit, 2 * GridPerUnit } :
    \E o \in { StateSetPositions(probe.state, Filled(len, x)) } :
      Called(o, "setPositions", len, probe.runs)

SetVelocities ==
  \E len \in StateArgLengths(12), v \in { 1, 2 } :
    \E o \in { StateSetVelocities(probe.state, Filled(len, << v >>)) } :
      Called(o, "setVelocities", len, probe.runs)

SetTypes ==
  \E len \in StateArgLengths(4), t \in 0..2 :
    \E o \in { StateSetTypes(probe.state,
                 [k \in 0..(len - 1) |-> IF k = 1 THEN t ELSE 0]) } :
      Called(o, "setTypes", len, probe.runs)

SetMasses ==
  \E len \in StateArgLengths(4), m \in 0..2 :
    \E o \in { StateSetMasses(probe.state,
                 [k \in 0..(len - 1) |-> IF k = 1 THEN m ELSE 1]) } :
      Called(o, "setMasses", len, probe.runs)

InitializeLattice ==
  \E n \in { << 2, 2, 1 >>, << 1, 1, 1 >>, << 2, 2, 2 >> }, type \in 0..1 :
    \E o \in { StateInitializeLattice(probe.state, n[1], n[2], n[3],
                                      GridPerUnit, type) } :
      Called(o, "initializeLattice", n[1] * n[2] * n[3], probe.runs)

InitializeFCC ==
  \E n \in { << 1, 1, 1 >>, << 2, 1, 1 >>, << 1, 1, 0 >> }, type \in 0..1 :
    \E o \in { StateInitializeFCC(probe.state, n[1], n[2], n[3],
                                  2 * GridPerUnit, type) } :
      Called(o, "initializeFCC", 4 * n[1] * n[2] * n[3], probe.runs)

InitializeVelocities ==
  \E temperature \in 1..2, seed \in { DefaultSeed, 1 } :
    \E o \in { StateInitializeVelocities(probe.state, temperature, seed) } :
      Called(o, "initializeVelocities", 4,
             probe.runs \cup
               { [ at |-> probe.calls + 1,
                   temperature |-> temperature, seed |-> seed,
                   masses |-> probe.state._masses,
                   velocities |-> o._velocities ] })

NextState ==
  \/ SetPositions \/ SetVelocities \/ SetTypes \/ SetMasses
  \/ InitializeLattice \/ InitializeFCC \/ InitializeVelocities

SpecState == InitState /\ [][NextState]_vars


\* C13: at all times every atom's type index is below the number of types
\* and every atom's mass is positive.
C13_TypesAndMassesValid ==
  \A i \in 0..(probe.state.numAtoms - 1) :
    /\ probe.state._types[i] < probe.numTypes
    /\ probe.state._masses[i] > 0


Setters == { "setPositions", "setVelocities", "setTypes", "setMasses" }

\* the length the constructor allocated for the array a setter fills
Allocated(op) ==
  IF op \in { "setPositions", "setVelocities" }
  THEN 3 * probe.state.numAtoms ELSE probe.state.numAtoms

HostArrays(o) == << o._positions, o._velocities, o._types, o._masses >>

DeviceBuffers(o) ==
  << o.positionsBuffer, o.velocitiesBuffer, o.typesBuffer, o.massesBuffer >>

\* C14: a setter throws the length-mismatch error exactly when its argument
\* is not of the allocated length, and then no host array and no device
\* buffer has changed.
C14_LengthMismatchThrows ==
  [][ probe'.call.op \in Setters =>
        /\ probe'.state.thrown = "length mismatch"
             <=> probe'.call.size # Allocated(probe'.call.op)
        /\ probe'.call.size # Allocated(probe'.call.op) =>
             /\ HostArrays(probe'.state) = HostArrays(probe.state)
             /\ DeviceBuffers(probe'.state) = DeviceBuffers(probe.state) ]_vars

C14_Witness ==
  /\ probe.call = [ op |-> "setTypes", size |-> 3 ]
  /\ probe.state.thrown = "length mismatch"
  /\ probe.state._types[1] = 1 /\ probe.state.typesBuffer[1] = 1

\* C15: initializeLattice and initializeFCC throw exactly when the lattice
\* does not have numAtoms sites, and then the positions, the types and the
\* box are as before the call.
C15_LatticeMismatchThrows ==
  [][ probe'.call.op \in { "initializeLattice", "initializeFCC" } =>
        /\ probe'.state.thrown = "lattice size mismatch"
             <=> probe'.call.size # probe.state.numAtoms
        /\ probe'.call.size # probe.state.numAtoms =>
             /\ HostArrays(probe'.state) = HostArrays(probe.state)
             /\ DeviceBuffers(probe'.state) = DeviceBuffers(probe.state)
             /\ probe'.state.box = probe.state.box ]_vars

C15_Witness ==
  /\ probe.call = [ op |-> "initializeFCC", size |-> 8 ]
  /\ probe.state.thrown = "lattice size mismatch"
  /\ probe.state._positions[0] = GridPerUnit \div 2
  /\ probe.state._types[0] = 1
  /\ probe.state.box.l = << 2 * GridPerUnit, 2 * GridPerUnit, GridPerUnit >>

\* C20: two velocity initialisations with the same seed, temperature and
\* masses (and number of atoms) give the same velocity array, whatever the
\* state held and whichever generators ran before either of them.
C20_SeededVelocities ==
  \A r1 \in probe.runs, r2 \in probe.runs :
    (r1.seed = r2.seed /\ r1.temperature = r2.temperature
       /\ r1.masses = r2.masses) => r1.velocities = r2.velocities

C20_Witness ==
  \E r1 \in probe.runs, r2 \in probe.runs, r3 \in probe.runs :
    /\ r1.at = 1 /\ r2.at = 2 /\ r3.at = 3
    /\ r1.seed = DefaultSeed /\ r2.seed = 1 /\ r3.seed = DefaultSeed
    /\ r1.temperature = r3.temperature /\ r1.masses = r3.masses
    /\ r1.velocities = r3.velocities /\ r1.velocities # r2.velocities


----------------------------------------------------------------------------
(* PairCoeffMatrix on its own: a Map from the key string of a type pair to *)
(* its coefficients, in insertion order, and the flat array packed from it *)

\* String(n) for a non-negative integer: its decimal digits
DigitChars == << "0", "1", "2", "3", "4", "5", "6", "7", "8", "9" >>

RECURSIVE ToDigits(_)
ToDigits(n) ==
  IF n < 10 THEN << DigitChars[n + 1] >>
  ELSE Append(ToDigits(n \div 10), DigitChars[(n % 10) + 1])

\* Number(s) for a string of decimal digits; Number("") is 0
RECURSIVE FromDigits(_)
FromDigits(s) ==
  IF s = << >> THEN 0
  ELSE 10 * FromDigits(SubSeq(s, 1, Len(s) - 1))
         + (CHOOSE d \in 0..9 : DigitChars[d + 1] = s[Len(s)])

\* PairCoeffMatrix.key: `${a}-${b}` with a <= b
key(i, j) ==
  IF i <= j THEN ToDigits(i) \o << "-" >> \o ToDigits(j)
  ELSE ToDigits(j) \o << "-" >> \o ToDigits(i)

\* key.split('-').map(Number): the parts between the separators
RECURSIVE SplitKey(_, _)
SplitKey(s, part) ==
  IF s = << >> THEN << FromDigits(part) >>
  ELSE IF Head(s) = "-" THEN << FromDigits(part) >> \o SplitKey(Tail(s), << >>)
  ELSE SplitKey(Tail(s), Append(part, Head(s)))

\* Map.set: a present key keeps its place, a new one goes last
MapSet(data, k, v) ==
  IF \E n \in 1..Len(data) : data[n][1] = k
  THEN [n \in 1..Len(data) |-> IF data[n][1] = k THEN << k, v >> ELSE data[n]]
  ELSE Append(data, << k, v >>)

CoeffSet(data, i, j, coeffs) == MapSet(data, key(i, j), coeffs)

CoeffHas(data, i, j) == \E n \in 1..Len(data) : data[n][1] = key(i, j)

\* PairCoeffMatrix.get; "undefined" for a missing key
CoeffGet(data, i, j) ==
  IF CoeffHas(data, i, j)
  THEN data[CHOOSE n \in 1..Len(data) : data[n][1] = key(i, j)][2]
  ELSE "undefined"

\* a Float32Array store: an index outside the array is ignored
ArrayStore(arr, idx, v) ==
  IF idx \in DOMAIN arr THEN [arr EXCEPT ![idx] = v] ELSE arr

\* variant: only the slot (i, j) is written
PackPairOneSlot(arr, numTypes, coeffsPerPair, entry) ==
  LET ij == SplitKey(entry[1], << >>)
  IN  ForRange(LAMBDA k, a :
                 ArrayStore(a, (ij[1] * numTypes + ij[2]) * coeffsPerPair + k,
                            entry[2][k + 1]),
               arr, 0, coeffsPerPair - 1)

\* packForGPU, one entry of entries(): the packed coefficients go to the
\* slots (i, j) and (j, i)
PackPair(arr, numTypes, coeffsPerPair, entry) ==
  LET ij == SplitKey(entry[1], << >>)
      idx1 == (ij[1] * numTypes + ij[2]) * coeffsPerPair
      idx2 == (ij[2] * numTypes + ij[1]) * coeffsPerPair
  IN  ForRange(LAMBDA k, a :
                 ArrayStore(ArrayStore(a, idx1 + k, entry[2][k + 1]),
                            idx2 + k, entry[2][k + 1]),
               arr, 0, coeffsPerPair - 1)

\* PairCoeffMatrix.packForGPU with a packer that lists the coefficients
packForGPU(data, numTypes, coeffsPerPair) ==
  ForRange(LAMBDA n, a : PackPair(a, numTypes, coeffsPerPair, data[n]),
           Filled(numTypes * numTypes * coeffsPerPair, 0), 1, Len(data))

MaxCoeffCalls == MaxSteps \div 3

\* a matrix for two types; coefficients are <<epsilon, sigma>>
InitCoeff ==
  /\ \E s \in { DataSim } :
       InitFrom(s, [ oob |-> "zero", nanU32 |-> 0 ], "fromLAMMPSData")
  /\ probe = [ numTypes |-> 2, data |-> << >>, packed |-> Filled(8, 0),
               packedAt |-> 0, calls |-> 0, lastSet |-> << 0, 0 >> ]

\* coeffMatrix.set(i, j, coeffs), with any type indices the caller passes
CoeffMatrixSet ==
  /\ probe.calls < MaxCoeffCalls
  /\ \E i \in 0..probe.numTypes, j \in 0..probe.numTypes, epsilon \in 1..2 :
       probe' = [probe EXCEPT
                   !.data = CoeffSet(@, i, j, << epsilon, i + j + 1 >>),
                   !.calls = @ + 1, !.lastSet = << i, j >>]
  /\ UNCHANGED << configVars, stateVars, ghostVars >>

\* uploadCoeffs: packForGPU of the matrix as it is
CoeffMatrixPack ==
  /\ probe.packedAt # probe.calls
  /\ probe' = [probe EXCEPT
                 !.packed = packForGPU(probe.data, probe.numTypes, 2),
                 !.packedAt = probe.calls]
  /\ UNCHANGED << configVars, stateVars, ghostVars >>

NextCoeff == CoeffMatrixSet \/ CoeffMatrixPack

SpecCoeff == InitCoeff /\ [][NextCoeff]_vars

TypeIds == 0..(probe.numTypes - 1)

\* the packed block of the slot (i, j)
Block(i, j) ==
  [k \in 0..1 |-> probe.packed[(i * probe.numTypes + j) * 2 + k]]

\* C16: get and has do not depend on the order of the two types, and the
\* packed array holds the same block at the slots (i, j) and (j, i).
C16_Symmetric ==
  \A i \in TypeIds, j \in TypeIds :
    /\ CoeffGet(probe.data, i, j) = CoeffGet(probe.data, j, i)
    /\ CoeffHas(probe.data, i, j) = CoeffHas(probe.data, j, i)
    /\ probe.packedAt = probe.calls => Block(i, j) = Block(j, i)


----------------------------------------------------------------------------
(* Simulation.checkStability on its own: the positions read back from the  *)
(* device are f32 values, each either finite or one of NaN, +Infinity and  *)
(* -Infinity, which the check has to tell apart                            *)

F32Samples == { "0", "1.5", "NaN", "Infinity", "-Infinity" }

\* the global isNaN of JavaScript on a number
isNaN(x) == x = "NaN"

IsInfinite(x) == x \in { "Infinity", "-Infinity" }

\* checkStability: the first index that holds a NaN decides
checkStability(pos) ==
  IF \E i \in DOMAIN pos : isNaN(pos[i])
  THEN [ stable |-> FALSE,
         message |-> CHOOSE i \in DOMAIN pos :
                       isNaN(pos[i]) /\ \A k \in DOMAIN pos : k < i => ~isNaN(pos[k]) ]
  ELSE [ stable |-> TRUE, message |-> -1 ]

\* one atom at the origin, nothing checked yet
InitStability ==
  /\ \E s \in { DataSim } :
       InitFrom(s, [ oob |-> "zero", nanU32 |-> 0 ], "fromLAMMPSData")
  /\ probe = [ pos |-> [i \in 0..2 |-> "0"], checked |-> FALSE,
               read |-> [i \in 0..2 |-> "0"],
               report |-> [ stable |-> TRUE, message |-> -1 ] ]

\* a position component takes a new value (an integration step or
\* state.setPositions wrote the buffer)
PositionWritten ==
  /\ \E i \in 0..2, v \in F32Samples :
       probe' = [probe EXCEPT !.pos[i] = v]
  /\ UNCHANGED << configVars, stateVars, ghostVars >>

\* await simulation.checkStability()
CheckStability ==
  /\ probe' = [probe EXCEPT !.checked = TRUE, !.read = probe.pos,
                            !.report = checkStability(probe.pos)]
  /\ UNCHANGED << configVars, stateVars, ghostVars >>

NextStability == PositionWritten \/ CheckStability

SpecStability == InitStability /\ [][NextStability]_vars

\* C17: a check that read a NaN or an infinite position component reported
\* the simulation as unstable.
C17_NonFiniteIsUnstable ==
  (/\ probe.checked
   /\ \E i \in DOMAIN probe.read :
        isNaN(probe.read[i]) \/ IsInfinite(probe.read[i]))
    => ~probe.report.stable


----------------------------------------------------------------------------
(* runScalingBenchmark: one simulation per system size, each on a device   *)
(* of its own. A buffer is <<device, label, generation>>; `live` holds the *)
(* buffers that were created and not destroyed.                            *)

StateBuffers ==
  { "positions", "velocities", "forces", "types", "masses",
    "positions-staging", "types-staging", "box" }

NeighborListBuffers ==
  { "neighbor-list-params", "neighbor-list", "num-neighbors" }

CellListBuffers ==
  { "cell-list-params", "cell-counts", "cell-atoms", "atom-cell" }

VerletBuffers ==
  { "verlet-params", "last-rebuild-positions", "max-displacement-sq",
    "max-displacement-staging" }

PairStyleBuffers == { "lj-coeffs" }

PairLJCutBuffers == { "lj-params", "lj-energy", "lj-energy-staging" }

KineticEnergyBuffers ==
  { "ke-params", "per-atom-ke", "partial-sums", "ke-result", "ke-staging" }

\* device.createBuffer for each label
CreateBuffers(live, dev, labels) ==
  live \cup { << dev, label, 1 >> : label \in labels }

\* buffer.destroy() for each label
DestroyBuffers(live, dev, labels) ==
  { b \in live : ~(b[1] = dev /\ b[2] \in labels) }

\* CellList.updateBox: the two cell arrays are destroyed and created anew
RecreateCellBuffers(live, dev) ==
  { IF b[1] = dev /\ b[2] \in { "cell-counts", "cell-atoms" }
    THEN << dev, b[2], b[3] + 1 >> ELSE b : b \in live }

\* GPUDevice.destroy: every buffer of the device is destroyed
DeviceDestroy(live, dev) == { b \in live : b[1] # dev }

\* Simulation.create, then the updateBox of createLJLiquid
SimulationCreate(live, dev) ==
  RecreateCellBuffers(
    CreateBuffers(
      RecreateCellBuffers(
        CreateBuffers(live, dev,
                      StateBuffers \cup NeighborListBuffers \cup CellListBuffers),
        dev),
      dev, VerletBuffers \cup PairStyleBuffers \cup PairLJCutBuffers
             \cup KineticEnergyBuffers),
    dev)

\* Simulation.destroy: state, neighbor list (with its cell list),
\* integrator, pair style, kinetic energy, then the context's device
SimulationDestroy(live, dev) ==
  DeviceDestroy(
    DestroyBuffers(live, dev,
                   StateBuffers \cup NeighborListBuffers \cup CellListBuffers
                     \cup VerletBuffers \cup PairStyleBuffers
                     \cup PairLJCutBuffers \cup KineticEnergyBuffers),
    dev)

\* (4 / 0.8)^(1/3) on the grid
FccLatticeConstant == (1710 * GridPerUnit) \div 1000

\* createLJLiquid(n, n, n) with the default cutoff 2.5 and density 0.8
SystemTooSmall(n) ==
  LJLiquidThrows((5 * GridPerUnit) \div 2, n * FccLatticeConstant,
                 FccLatticeConstant)

NumSizes == 3

\* the first system sizes of getSystemSizes(): round((atoms / 4)^(1/3)) for
\* 4000 atoms and 25% more each time, a repeated size left out
SYSTEM_SIZES == SubSeq(<< 10, 11, 12, 13, 15 >>, 1, NumSizes)

\* variant: the simulation is left as it is
ScalingFinallySkipped(b) == b

\* the finally block of the loop body: await simulation?.destroy()
ScalingFinally(b) ==
  IF b.simulation = 0 THEN b
  ELSE [b EXCEPT !.live = SimulationDestroy(@, b.simulation),
                 !.simulation = 0]

\* the end of one pass of the loop
NextSize(b) ==
  [b EXCEPT !.i = @ + 1,
            !.pc = IF b.i = NumSizes THEN "returned" ELSE "create"]

\* an exception reaches the loop body: Benchmark.ts has no handler and the
\* function rejects; the other implementation logs it, cleans up and goes on
Thrown(b, phase) ==
  IF b.impl = "Benchmark.ts"
  THEN [b EXCEPT !.pc = "rejected", !.errors = Append(@, << b.i, phase >>)]
  ELSE NextSize(ScalingFinally(
         [b EXCEPT !.errors = Append(@, << b.i, phase >>)]))

\* the benchmark of one size finished: the result is kept and the
\* simulation destroyed
Measured(b) ==
  IF b.impl = "Benchmark.ts"
  THEN NextSize([b EXCEPT !.results = Append(@, b.sizes[b.i]),
                          !.live = SimulationDestroy(@, b.simulation),
                          !.simulation = 0])
  ELSE NextSize(ScalingFinally([b EXCEPT !.results = Append(@, b.sizes[b.i])]))

\* runScalingBenchmark is called: Benchmark.ts takes the sizes from its
\* caller, the other implementation uses SYSTEM_SIZES
InitBench ==
  /\ \E s \in { DataSim } :
       InitFrom(s, [ oob |-> "zero", nanU32 |-> 0 ], "fromLAMMPSData")
  /\ \E impl \in { "Benchmark.ts", "part_005" } :
       \E sizes \in IF impl = "Benchmark.ts" THEN [1..NumSizes -> 1..3]
                    ELSE { SYSTEM_SIZES } :
         probe = [ impl |-> impl, sizes |-> sizes, i |-> 1, pc |-> "create",
                   simulation |-> 0, live |-> {}, liveAtCreate |-> {},
                   created |-> 0, results |-> << >>, errors |-> << >> ]

\* await Simulation.createLJLiquid(n, n, n, ...): it throws before anything
\* is allocated (system too small, no WebGPU adapter) or returns a simulation
CreateLJLiquid ==
  /\ probe.pc = "create"
  /\ \E adapter \in BOOLEAN :
       probe' =
         IF SystemTooSmall(probe.sizes[probe.i]) \/ ~adapter
         THEN Thrown(probe, "create")
         ELSE [probe EXCEPT !.simulation = probe.i,
                            !.liveAtCreate = probe.live,
                            !.created = @ + 1,
                            !.live = SimulationCreate(@, probe.i),
                            !.pc = "warmup"]
  /\ UNCHANGED << configVars, stateVars, ghostVars >>

\* runBenchmark up to its first await: the warmup steps, then waitForGPU
Warmup ==
  /\ probe.pc = "warmup"
  /\ \E ok \in BOOLEAN :
       probe' = IF ok THEN [probe EXCEPT !.pc = "benchmark"]
                ELSE Thrown(probe, "warmup")
  /\ UNCHANGED << configVars, stateVars, ghostVars >>

\* the timed steps, waitForGPU, and the rest of the loop body
Benchmark ==
  /\ probe.pc = "benchmark"
  /\ \E ok \in BOOLEAN :
       probe' = IF ok THEN Measured(probe) ELSE Thrown(probe, "benchmark")
  /\ UNCHANGED << configVars, stateVars, ghostVars >>

NextBench == CreateLJLiquid \/ Warmup \/ Benchmark

SpecBench == InitBench /\ [][NextBench]_vars

----------------------------------------------------------------------------
(* The generator of seededRandom on its own: a closure over a seed, called *)
(* again and again.  The seed is a number: an integer, or a fraction       *)
(* m / 2^30.  The number a call returns is the quotient seed / 0x7fffffff, *)
(* kept as <<numerator, denominator>>.                                     *)

\* return seed / 0x7fffffff
LcgValue(seed) == << seed, LcgMask >>

MaxDraws == MaxSteps + 3

\* integer seeds: small ones, the default, the last seed whose product is
\* exact in a double and its successor, the seed that the recurrence modulo
\* 2^31 without rounding maps to 0x7fffffff, and the largest values of the
\* captured variable
LcgSeeds ==
  { 0, 1, 42, DefaultSeed, 8162278, 8162279, 230538014, 1073741824,
    LcgMask - 1, LcgMask }

\* numerators m of the seeds m / 2^30: 0.5, 1.5 and 1.946027762...
LcgFractions == { 536870912, 1610612736, 2089531399 }

InitLcg ==
  /\ \E s \in { DataSim } :
       InitFrom(s, [ oob |-> "zero", nanU32 |-> 0 ], "fromLAMMPSData")
  /\ \E shift \in { 0, 30 } :
       \E seed \in IF shift = 0 THEN LcgSeeds ELSE LcgFractions :
         probe = [ seed0 |-> seed, shift0 |-> shift, seed |-> seed,
                   calls |-> 0, value |-> << 0, LcgMask >> ]

\* random()
Random ==
  /\ probe.calls < MaxDraws
  /\ \E next \in { IF probe.calls = 0 /\ probe.shift0 = 30
                   THEN LcgNextOfFraction(probe.seed)
                   ELSE LcgNext(probe.seed) } :
       probe' = [probe EXCEPT !.seed = next, !.calls = @ + 1,
                              !.value = LcgValue(next)]
  /\ UNCHANGED << configVars, stateVars, ghostVars >>

NextLcg == Random

SpecLcg == InitLcg /\ [][NextLcg]_vars

\* the statement for every seed: it fails for the seed 2089531399 / 2^30,
\* whose first number is 0x7fffffff / 0x7fffffff = 1
C21_UnitIntervalAnySeed ==
  probe.calls > 0 =>
    /\ 0 <= probe.value[1]
    /\ probe.value[1] < probe.value[2]

\* C21: for an integer seed every number the generator returns is at least
\* 0 and below 1.
C21_UnitInterval ==
  (probe.calls > 0 /\ probe.shift0 = 0) =>
    /\ 0 <= probe.value[1]
    /\ probe.value[1] < probe.value[2]

\* the draw from the seed that the recurrence modulo 2^31, computed without
\* rounding, would map to 0x7fffffff
C21_Witness ==
  /\ probe.calls = 1
  /\ probe.shift0 = 0
  /\ probe.seed0 = 230538014
  /\ LcgNextExact(probe.seed0) = LcgMask
  /\ probe.seed < LcgMask


----------------------------------------------------------------------------
(* parseLAMMPSData, the Atoms section.  A line is the sequence of its      *)
(* whitespace-separated fields; a numeric field is the sequence of its     *)
(* characters.                                                             *)

IsDigit(ch) == \E d \in 1..10 : DigitChars[d] = ch

\* the longest prefix of s made of digits
RECURSIVE DigitPrefix(_)
DigitPrefix(s) ==
  IF s # << >> /\ IsDigit(Head(s)) THEN << Head(s) >> \o DigitPrefix(Tail(s))
  ELSE << >>

\* parseInt(field): the leading digits, after an optional minus sign; NaN
\* for a missing field or one that does not start with a number
parseInt(field) ==
  IF field = << >> THEN NaN
  ELSE IF Head(field) = "-"
       THEN IF DigitPrefix(Tail(field)) = << >> THEN NaN
            ELSE 0 - FromDigits(DigitPrefix(Tail(field)))
       ELSE IF DigitPrefix(field) = << >> THEN NaN
            ELSE FromDigits(DigitPrefix(field))

RECURSIVE Pow10(_)
Pow10(e) == IF e = 0 THEN 1 ELSE 10 * Pow10(e - 1)

\* parseFloat(field) for digits with an optional fraction, on the grid
parseFloat(field) ==
  IF field = << >> \/ DigitPrefix(field) = << >> THEN NaN
  ELSE Bind(DigitPrefix(field), LAMBDA whole :
       Bind(SubSeq(field, Len(whole) + 1, Len(field)), LAMBDA rest :
         FromDigits(whole) * GridPerUnit
           + (IF rest # << >> /\ Head(rest) = "."
              THEN Bind(DigitPrefix(Tail(rest)), LAMBDA frac :
                     (FromDigits(frac) * GridPerUnit) \div Pow10(Len(frac)))
              ELSE 0)))

\* parts[n] of a line (from 0); a missing part is undefined, which parses
\* to NaN
Part(parts, n) == IF n + 1 <= Len(parts) THEN parts[n + 1] ELSE << >>

\* variant: no header selects the molecular format
isMolecularNever(atomsLine) == FALSE

\* atomsLine.includes('molecular') || atomsLine.includes('full')
isMolecular(atomsLine) ==
  \E n \in 1..Len(atomsLine) : atomsLine[n] \in { "molecular", "full" }

\* one atom record: id [mol-id] type x y z
ParseAtom(parts, molecular) ==
  IF molecular
  THEN [ id |-> parseInt(Part(parts, 0)),
         type |-> FSub(parseInt(Part(parts, 2)), 1),
         x |-> parseFloat(Part(parts, 3)), y |-> parseFloat(Part(parts, 4)),
         z |-> parseFloat(Part(parts, 5)) ]
  ELSE [ id |-> parseInt(Part(parts, 0)),
         type |-> FSub(parseInt(Part(parts, 1)), 1),
         x |-> parseFloat(Part(parts, 2)), y |-> parseFloat(Part(parts, 3)),
         z |-> parseFloat(Part(parts, 4)) ]

\* variant: the atoms stay in file order
SortByIdSkipped(atoms) == atoms

\* atoms.sort((a, b) => a.id - b.id): a stable sort by id
RECURSIVE SortById(_)
SortById(atoms) ==
  IF atoms = << >> THEN << >>
  ELSE Bind(SortById(SubSeq(atoms, 1, Len(atoms) - 1)), LAMBDA sorted :
       Bind(atoms[Len(atoms)], LAMBDA last :
       Bind(Cardinality({ n \in 1..Len(sorted) : sorted[n].id <= last.id }),
            LAMBDA before :
         SubSeq(sorted, 1, before) \o << last >>
           \o SubSeq(sorted, before + 1, Len(sorted)))))

\* a store into a Uint32Array element
ToUint32(n) ==
  IF n = NaN THEN U32(0)
  ELSE IF n < 0 THEN << Two16 - 1, Two16 + n >> ELSE U32(n)

\* the Atoms section of parseLAMMPSData: the style from the header line,
\* the records, the sort, the typed arrays
parseAtoms(file) ==
  Bind(isMolecular(file.atomsLine), LAMBDA molecular :
  Bind(SortById([n \in 1..Min(file.numAtoms, Len(file.lines)) |->
                   ParseAtom(file.lines[n], molecular)]), LAMBDA atoms :
    [ isMolecular |-> molecular,
      positions |->
        [k \in 0..(3 * file.numAtoms - 1) |->
           IF k \div 3 < Len(atoms)
           THEN << atoms[(k \div 3) + 1].x, atoms[(k \div 3) + 1].y,
                   atoms[(k \div 3) + 1].z >>[(k % 3) + 1]
           ELSE 0],
      types |-> [i \in 0..(file.numAtoms - 1) |->
                   IF i < Len(atoms) THEN ToUint32(atoms[i + 1].type)
                   ELSE U32(0)],
      ids |-> [i \in 0..(file.numAtoms - 1) |->
                 IF i < Len(atoms) THEN ToUint32(atoms[i + 1].id)
                 ELSE U32(0)] ]))

\* a number as the field a file holds for it: the digits of the whole part
\* and, for a coordinate off the whole numbers, ".5"
IntField(n) == ToDigits(n)

CoordField(x) ==
  ToDigits(x \div GridPerUnit)
    \o (IF x % GridPerUnit = 0 THEN << >> ELSE << ".", "5" >>)

\* the atoms the sample files describe: id, molecule, type (from 1) and
\* position, for two choices of the ids
SampleAtoms(ids) ==
  [n \in 1..3 |->
     [ id |-> ids[n], mol |-> << 4, 4, 5 >>[n], type |-> << 1, 2, 1 >>[n],
       pos |-> << n * GridPerUnit, (2 * n + 1) * (GridPerUnit \div 2),
                  (n + 6) * GridPerUnit >> ]]

RecordOf(atom, molecular) ==
  << IntField(atom.id) >>
    \o (IF molecular THEN << IntField(atom.mol) >> ELSE << >>)
    \o << IntField(atom.type), CoordField(atom.pos[1]),
          CoordField(atom.pos[2]), CoordField(atom.pos[3]) >>

Permutations3 ==
  { p \in [1..3 -> 1..3] : \A a, b \in 1..3 : a # b => p[a] # p[b] }

AtomsLines ==
  { << "Atoms" >>, << "Atoms", "#", "atomic" >>,
    << "Atoms", "#", "molecular" >>, << "Atoms", "#", "full" >> }

\* a file with three atom records in some order, atomic or molecular, under
\* one of the headers
InitParse ==
  /\ \E s \in { DataSim } :
       InitFrom(s, [ oob |-> "zero", nanU32 |-> 0 ], "fromLAMMPSData")
  /\ \E ids \in { << 1, 2, 3 >>, << 12, 7, 30 >> }, order \in Permutations3,
        molecular \in BOOLEAN, atomsLine \in AtomsLines :
       probe = [ atoms |-> SampleAtoms(ids), molecular |-> molecular,
                 file |-> [ numAtoms |-> 3, atomsLine |-> atomsLine,
                            lines |-> [n \in 1..3 |->
                                         RecordOf(SampleAtoms(ids)[order[n]],
                                                  molecular)] ],
                 parsed |-> FALSE,
                 result |-> [ isMolecular |-> FALSE, positions |-> Zeros(9),
                              types |-> [i \in 0..2 |-> U32(0)],
                              ids |-> [i \in 0..2 |-> U32(0)] ] ]

\* parseLAMMPSData(data)
ParseLAMMPSData ==
  /\ ~ probe.parsed
  /\ probe' = [probe EXCEPT !.parsed = TRUE, !.result = parseAtoms(probe.file)]
  /\ UNCHANGED << configVars, stateVars, ghostVars >>

NextParse == ParseLAMMPSData

SpecParse == InitParse /\ [][NextParse]_vars

\* the atom of the file with the k-th smallest id, k from 0
KthById(k) ==
  CHOOSE n \in 1..3 :
    Cardinality({ m \in 1..3 : probe.atoms[m].id < probe.atoms[n].id }) = k

\* particle index k holds the id, the type minus one and the position of
\* the atom with the k-th smallest id
Resequenced ==
  \A k \in 0..2 :
    /\ probe.result.ids[k] = U32(probe.atoms[KthById(k)].id)
    /\ probe.result.types[k] = U32(probe.atoms[KthById(k)].type - 1)
    /\ PointOf(probe.result.positions, k) = probe.atoms[KthById(k)].pos

\* C22: for the records of a file in any order, read in the style they are
\* written in, particle index k holds the position and the 0-indexed type
\* of the record with the k-th smallest atom id.
C22_SortedById ==
  (probe.parsed /\ probe.result.isMolecular = probe.molecular) => Resequenced

\* records out of order, with ids that are not 1..N
C22_Witness ==
  /\ probe.parsed
  /\ probe.result.isMolecular = probe.molecular
  /\ probe.file.lines[1][1] = << "3", "0" >>
  /\ probe.file.lines[3][1] = << "1", "2" >>
  /\ probe.result.ids = [i \in 0..2 |-> U32(<< 7, 12, 30 >>[i + 1])]

\* the statement with the style told from the field count: records of six
\* fields are read as molecular and records of five fields as atomic,
\* whatever the header says
C23_StyleByFieldCount ==
  probe.parsed =>
    /\ probe.result.isMolecular = (Len(probe.file.lines[1]) = 6)
    /\ Resequenced

\* C23: both record styles are supported, and the style is the one named
\* on the Atoms header line: molecular for "molecular" or "full", atomic
\* otherwise.
C23_StyleByHeader ==
  probe.parsed =>
    /\ probe.result.isMolecular
         = (\E n \in 1..Len(probe.file.atomsLine) :
              probe.file.atomsLine[n] \in { "molecular", "full" })
    /\ (probe.result.isMolecular = probe.molecular => Resequenced)

\* molecular records under "Atoms # molecular", read with their types
C23_Witness ==
  /\ probe.parsed
  /\ probe.molecular
  /\ probe.file.atomsLine = << "Atoms", "#", "molecular" >>
  /\ Len(probe.file.lines[1]) = 6
  /\ probe.result.isMolecular
  /\ Resequenced


----------------------------------------------------------------------------
(* A grid with a single cell on a periodic axis: box 3 x 3 x 3, periodic   *)
(* in x, cutoff 1, skin 1, so that floor(3 / 2) = 1 cell per axis.  Two    *)
(* atoms 1/2 apart along x, rows of four neighbors, interval 2.            *)

OneCellConfig ==
  [ numAtoms |-> 2,
    box |-> [ l |-> << 3 * GridPerUnit, 3 * GridPerUnit, 3 * GridPerUnit >>,
              origin |-> << 0, 0, 0 >>,
              periodic |-> << TRUE, FALSE, FALSE >> ],
    cutoff |-> GridPerUnit, skin |-> GridPerUnit,
    maxNeighbors |-> 4, neighborRebuildEvery |-> 2 ]

OneCellPositions ==
  [k \in 0..5 |->
     << GridPerUnit \div 2, GridPerUnit \div 5, (29 * GridPerUnit) \div 10,
        GridPerUnit, GridPerUnit \div 5, (29 * GridPerUnit) \div 10 >>[k + 1]]

OneCellSim ==
  Bind(fromLAMMPSData(OneCellConfig, OneCellPositions, [i \in 0..1 |-> 1]),
       LAMBDA s : setVelocities(s, DataVelocities))

InitOneCell ==
  /\ \E dev \in Devices : \E s \in { OneCellSim } :
       InitFrom(s, dev, "fromLAMMPSData")
  /\ probe = NoProbe

SpecOneCell == InitOneCell /\ [][Next]_vars

\* C26: after a build no particle index appears twice in a row of the
\* neighbor list, on any grid, a periodic axis of one cell included.
C26_NoDuplicateInRow ==
  Built =>
    \A i \in Atoms :
      \A m, n \in 0..(Min(numNeighbors[i], maxNeighbors) - 1) :
        m # n => neighborList[i * maxNeighbors + m]
                   # neighborList[i * maxNeighbors + n]


----------------------------------------------------------------------------
(* CellList.updateBox on its own: boxes with axis lengths below, at and    *)
(* above the search radius.                                                *)

\* axis lengths and search radii, in tenths of a length unit
AxisLengths == { 10, 25, 30, 50, 90 }

SearchRadii == { 20, 25, 30 }

Tenths(n) == (n * GridPerUnit) \div 10

BoxOf(l) ==
  [ l |-> << Tenths(l[1]), Tenths(l[2]), Tenths(l[3]) >>,
    origin |-> << 0, 0, 0 >>, periodic |-> << TRUE, TRUE, TRUE >> ]

MaxBoxUpdates == MaxSteps \div 4

\* a cell list constructed for a 3 x 3 x 3 box, two atoms, two slots a cell
InitGrid ==
  /\ \E s \in { DataSim } :
       InitFrom(s, [ oob |-> "zero", nanU32 |-> 0 ], "fromLAMMPSData")
  /\ \E r \in SearchRadii :
       probe = [ box |-> BoxOf(<< 30, 30, 30 >>), cutoff |-> Tenths(r),
                 calls |-> 0,
                 cl |-> CellListUpdateBox(BoxOf(<< 30, 30, 30 >>), 2,
                                          Tenths(r), 2) ]

\* cellList.updateBox(box)
UpdateBox ==
  /\ probe.calls < MaxBoxUpdates
  /\ \E l \in [1..3 -> AxisLengths] :
       probe' = [probe EXCEPT
                   !.box = BoxOf(l), !.calls = @ + 1,
                   !.cl = CellListUpdateBox(BoxOf(l), 2, probe.cutoff, 2)]
  /\ UNCHANGED << configVars, stateVars, ghostVars >>

NextGrid == UpdateBox

SpecGrid == InitGrid /\ [][NextGrid]_vars

GridCounts == << probe.cl.numCellsX, probe.cl.numCellsY, probe.cl.numCellsZ >>

\* the cell edge on axis a, as the rational num / den
CellEdge(a) == probe.cl.params.cellSize[a]

\* axis a has max(1, floor(L / searchRadius)) cells and they tile the axis
FlooredAndTiling(a) ==
  /\ GridCounts[a] = Max(1, probe.box.l[a] \div probe.cutoff)
  /\ CellEdge(a).den = GridCounts[a]
  /\ CellEdge(a).num = probe.box.l[a]

C40_IntegerFieldsAsComputed ==
  /\ probe.cl.params.numAtoms = U32(probe.cl.numAtoms)
  /\ probe.cl.params.numCellsX = U32(probe.cl.numCellsX)
  /\ probe.cl.params.numCellsY = U32(probe.cl.numCellsY)
  /\ probe.cl.params.numCellsZ = U32(probe.cl.numCellsZ)
  /\ probe.cl.params.maxAtomsPerCell = U32(probe.cl.maxAtomsPerCell)


----------------------------------------------------------------------------
(* createLJLiquid(1, 1, 1) on its own, for lattice constants (set by the   *)
(* density) and requested cutoffs on both sides of half the box length.    *)

\* lattice constants and cutoffs, in tenths of a length unit
LatticeConstants == { 30, 35, 40, 45, 50, 55, 60, 64 }

Cutoffs == { 10, 15, 18, 20, 22, 25, 30 }

InitLiquid ==
  /\ \E s \in { DataSim } :
       InitFrom(s, [ oob |-> "zero", nanU32 |-> 0 ], "fromLAMMPSData")
  /\ \E a \in LatticeConstants, c \in Cutoffs :
       probe = [ latticeConstant |-> Tenths(a), requested |-> Tenths(c),
                 outcome |-> "none", cutoff |-> 0, skin |-> 0,
                 cutoffSq |-> 0, minBox |-> 0 ]

\* Simulation.createLJLiquid(1, 1, 1, { density, cutoff })
LJLiquidFactory ==
  /\ probe.outcome = "none"
  /\ IF LJLiquidThrows(probe.requested, probe.latticeConstant,
                       probe.latticeConstant)
     THEN probe' = [probe EXCEPT !.outcome = "thrown"]
     ELSE \E s \in { createLJLiquid(probe.latticeConstant, probe.requested,
                                    GridPerUnit \div 10,
                                    CHOOSE o \in BinOrders(4) : o[1] = 0,
                                    device) } :
            probe' = [probe EXCEPT
                        !.outcome = "created",
                        !.cutoff = s.cutoff, !.skin = s.skin,
                        !.cutoffSq = s.neighParams.cutoffSq,
                        !.minBox = Min(s.box.l[1],
                                       Min(s.box.l[2], s.box.l[3]))]
  /\ UNCHANGED << configVars, stateVars, ghostVars >>

NextLiquid == LJLiquidFactory

SpecLiquid == InitLiquid /\ [][NextLiquid]_vars

\* C32: the search radius of the neighbor builder of a simulation returned
\* by createLJLiquid, cutoff + skin, is at most half the smallest box
\* dimension.
C32_SearchRadiusWithinHalfBox ==
  probe.outcome = "created" =>
    /\ probe.cutoffSq
         = (probe.cutoff + probe.skin) * (probe.cutoff + probe.skin)
    /\ 2 * (probe.cutoff + probe.skin) <= probe.minBox


----------------------------------------------------------------------------
(* NeighborList constructed with a per-cell capacity of its caller's       *)
(* choice: the parameter blocks its two kernels are given.                 *)

CellCapacities == { 1, 32, DefaultMaxAtomsPerCell, 100 }

CapacityLengths == { 25, 50, 90 }

\* new NeighborList(ctx, 2, cutoff, skin, 4, maxAtomsPerCell) and its
\* updateBox: the cell list's updateBox, then updateParams
NeighborListOf(newBox, radius, perCell) ==
  Bind(CellListUpdateBox(newBox, 2, radius, perCell), LAMBDA cl :
    [ cellList |-> cl,
      params |-> NeighborListUpdateParams(newBox, cl, 2, radius, 4) ])

InitCapacity ==
  /\ \E s \in { DataSim } :
       InitFrom(s, [ oob |-> "zero", nanU32 |-> 0 ], "fromLAMMPSData")
  /\ \E r \in { 20, 25 }, m \in CellCapacities :
       probe = [ maxAtomsPerCell |-> m, radius |-> Tenths(r), calls |-> 0,
                 nl |-> NeighborListOf(BoxOf(<< 30, 30, 30 >>), Tenths(r),
                                       m) ]

\* neighborList.updateBox(box)
NeighborListUpdateBox ==
  /\ probe.calls < MaxBoxUpdates
  /\ \E l \in [1..3 -> CapacityLengths] :
       probe' = [probe EXCEPT
                   !.calls = @ + 1,
                   !.nl = NeighborListOf(BoxOf(l), probe.radius,
                                         probe.maxAtomsPerCell)]
  /\ UNCHANGED << configVars, stateVars, ghostVars >>

NextCapacity == NeighborListUpdateBox

SpecCapacity == InitCapacity /\ [][NextCapacity]_vars

\* the offset binAtoms stores slot k of cell c at, and the offset
\* buildNeighborList loads it from
BinSlotOffset(c, k) ==
  AddU32(MulU32(U32(c), probe.nl.cellList.params.maxAtomsPerCell), U32(k))

NeighSlotOffset(c, k) ==
  AddU32(MulU32(U32(c), probe.nl.params.maxAtomsPerCell), U32(k))

\* C33: the two kernels agree on the capacity of a cell and on the place of
\* slot k of cell c, for every capacity the NeighborList is constructed
\* with.
C33_SameSlotLayout ==
  /\ probe.nl.cellList.params.maxAtomsPerCell
       = probe.nl.params.maxAtomsPerCell
  /\ \A c \in 0..(probe.nl.cellList.numCells - 1) :
       \A k \in { 0, probe.maxAtomsPerCell - 1 } :
         BinSlotOffset(c, k) = NeighSlotOffset(c, k)


----------------------------------------------------------------------------
(* The position update of integrateInitial on one axis, in f32 arithmetic. *)
(* A coordinate is a whole number of units of 2^-23, so that 1.0 is 2^23   *)
(* and the f32 values below 2 are exactly the numbers below 2^24; the box  *)
(* lengths are powers of two, for which px / L is exact.                   *)

F32One == Pow2(23)

Abs(n) == IF n < 0 THEN 0 - n ELSE n

\* the spacing of the f32 values around n
F32Spacing(n) ==
  IF Abs(n) < Pow2(24) THEN 1 ELSE Pow2(Log2Floor(Abs(n)) - 23)

\* n rounded to the nearest f32 value, ties to the even significand
RoundF32(n) ==
  Bind(F32Spacing(n), LAMBDA q :
  Bind((n - (n % q)) \div q, LAMBDA lower :
    IF 2 * (n % q) > q \/ (2 * (n % q) = q /\ lower % 2 = 1)
    THEN (lower + 1) * q
    ELSE lower * q))

\* one axis of applyPBC with every operation rounded:
\* origin + px - floor(px / L) * L, px = x - origin
PBCAxisF32(x, origin, L) ==
  Bind(RoundF32(x - origin), LAMBDA px :
    RoundF32(RoundF32(origin + px) - (px \div L) * L))

\* x + dt * v, then applyPBC on a periodic axis
MoveAxisF32(x, dx, origin, L, periodic) ==
  IF periodic THEN PBCAxisF32(RoundF32(x + dx), origin, L)
  ELSE RoundF32(x + dx)

\* coordinates at the lower face, inside and just below the upper face of
\* a box of length L at the origin, as offsets in units of 2^-23
StartsIn(L) == { 0, 1, 3, L \div 2, L - 8, L - 4 }

\* displacements dt * v of a step: a few units of 2^-23 either way, and a
\* quarter of the box
StepsOf(L) == { -5, -3, -2, -1, 0, 1, 2, 3, 4, 6, L \div 4, 0 - L \div 4 }

InitPBC ==
  /\ \E s \in { DataSim } :
       InitFrom(s, [ oob |-> "zero", nanU32 |-> 0 ], "fromLAMMPSData")
  /\ \E L \in { 4 * F32One, 8 * F32One }, periodic \in BOOLEAN :
       \E x \in StartsIn(L), dx \in StepsOf(L) :
         probe = [ L |-> L, origin |-> 0, periodic |-> periodic,
                   x |-> x, step |-> dx, moved |-> FALSE, out |-> x ]

\* integrateInitial, the position of one particle on one axis
IntegrateInitialAxis ==
  /\ ~ probe.moved
  /\ probe' = [probe EXCEPT
                 !.moved = TRUE,
                 !.out = MoveAxisF32(probe.x, probe.step, probe.origin,
                                     probe.L, probe.periodic)]
  /\ UNCHANGED << configVars, stateVars, ghostVars >>

NextPBC == IntegrateInitialAxis

SpecPBC == InitPBC /\ [][NextPBC]_vars

\* C34: after integrateInitial a coordinate on a periodic axis lies in
\* [origin, origin + L) and a coordinate on a non-periodic axis is the
\* unwrapped x + dt * v.
C34_WrappedIntoBox ==
  probe.moved =>
    IF probe.periodic
    THEN probe.origin <= probe.out /\ probe.out < probe.origin + probe.L
    ELSE probe.out = RoundF32(probe.x + probe.step)


\* ---------------------------------------------------------------------
\* The demo page: the play/pause button, the animation loop, the energy
\* display and the reset button (main.ts, SimulationVisualizer.ts).
\* Every action is one run of a handler from the event that resumes it to
\* its next await.  A simulation and its visualizer are named by the number
\* of the resetSimulation call that created them; 0 is null.
\* ---------------------------------------------------------------------

\* SimulationVisualizer.stepsPerFrame as togglePlay passes it
StepsPerFrame == 10

\* ENERGY_UPDATE_INTERVAL
EnergyUpdateInterval == 50

\* animation frames that step one simulation, clicks on the reset button
MaxFrames == MaxSteps - 3

MaxResets == 1

\* clicks on the play button
MaxClicks == 3

\* computeEnergy calls in flight beyond which no further one is followed
MaxEnergy == 2

Generations == 1 .. (MaxResets + 1)

DropAt(s, i) == SubSeq(s, 1, i - 1) \o SubSeq(s, i + 1, Len(s))

\* what the last handler run issued
NoOps ==
  [ kind |-> "none", steps |-> 0, dispatch |-> FALSE, readback |-> FALSE,
    onDestroyed |-> FALSE, resumed |-> FALSE, mapPending |-> FALSE,
    caller |-> "none", kinetic |-> 0, potential |-> 0 ]

\* a map of the kinetic-energy staging buffer of simulation g is pending
KEMapPending(p, g) ==
  \E i \in 1 .. Len(p.energy) : p.energy[i].sim = g /\ p.energy[i].pc = "keMap"

\* a map of the pair style's energy staging buffer of g is pending
PEMapPending(p, g) ==
  \E i \in 1 .. Len(p.energy) : p.energy[i].sim = g /\ p.energy[i].pc = "peMap"

\* a map of the positions staging buffer of g is pending
PositionsMapPending(p, g) ==
  \E i \in 1 .. Len(p.loops) : p.loops[i].viz = g /\ p.loops[i].pc = "map"

\* KineticEnergy.compute up to its first await: the two passes and the copy
\* into the staging buffer are submitted; a submission that names a buffer
\* with a pending map is dropped by the queue
KineticEnergyBegin(p, g, who) ==
  [p EXCEPT
     !.keStaging[g] = IF KEMapPending(p, g) \/ g \in p.destroyed
                      THEN @ ELSE p.currentStep[g],
     !.energy = Append(@, [ sim |-> g, pc |-> "keWorkDone", kinetic |-> 0,
                            caller |-> who ]),
     !.ops.dispatch = TRUE,
     !.ops.onDestroyed = @ \/ g \in p.destroyed,
     !.ops.mapPending = @ \/ KEMapPending(p, g)]

\* updateEnergy up to the first await of simulation.computeEnergy
updateEnergy(p, who) ==
  IF p.simulation = 0 THEN p ELSE KineticEnergyBegin(p, p.simulation, who)

\* updateEnergy has returned to resetSimulation: the controls are enabled
AfterUpdateEnergy(p, who) ==
  IF who = "reset"
  THEN [p EXCEPT !.resetPc = "idle", !.playEnabled = TRUE]
  ELSE p

\* SimulationVisualizer.loop up to its await of update(): stepsPerFrame
\* steps, then readPositions waits for the submitted work
loop(p, v) ==
  IF ~ p.isRunning[v] THEN p
  ELSE [p EXCEPT
          !.currentStep[v] = @ + StepsPerFrame,
          !.loops = Append(@, [ viz |-> v, pc |-> "workDone" ]),
          !.ops.steps = @ + StepsPerFrame,
          !.ops.dispatch = TRUE,
          !.ops.onDestroyed = @ \/ v \in p.destroyed]

\* the steps of one more frame stay within the bound
MayStep(p, v) ==
  p.currentStep[1] + p.currentStep[2] < StepsPerFrame * MaxFrames

\* one more computeEnergy call is followed
MayUpdateEnergy(p) == Len(p.energy) < MaxEnergy

\* SimulationVisualizer.start
start(p, v) ==
  IF p.isRunning[v] THEN p
  ELSE loop([p EXCEPT !.isRunning[v] = TRUE], v)

\* SimulationVisualizer.stop
stop(p, v) ==
  [p EXCEPT
     !.isRunning[v] = FALSE,
     !.frames = { f \in @ : f.id # p.animationFrameId[v] },
     !.animationFrameId[v] = 0]

\* the onStep callback togglePlay installs, up to its first await
onStep(p, v) ==
  IF p.currentStep[v] - p.lastEnergyUpdate >= EnergyUpdateInterval
  THEN updateEnergy(p, "onStep")
  ELSE p

\* requestAnimationFrame(this.loop)
RequestFrame(p, v) ==
  [p EXCEPT
     !.frames = @ \cup { [ id |-> p.nextFrame, viz |-> v ] },
     !.animationFrameId[v] = p.nextFrame,
     !.nextFrame = @ + 1]

\* Simulation.destroy: the buffers are destroyed, which rejects the maps
\* pending on them
DestroySimulation(p, g) ==
  [p EXCEPT
     !.destroyed = @ \cup {g},
     !.loops = SelectSeq(@, LAMBDA l : ~ (l.viz = g /\ l.pc = "map")),
     !.energy = SelectSeq(@, LAMBDA e : ~ (e.sim = g /\ e.pc # "keWorkDone"))]

InitUI ==
  /\ \E s \in { DataSim } :
       InitFrom(s, [ oob |-> "zero", nanU32 |-> 0 ], "fromLAMMPSData")
  /\ probe = [ simulation |-> 0, visualizer |-> 0, destroyed |-> {},
               currentStep |-> [ g \in Generations |-> 0 ],
               isRunning |-> [ g \in Generations |-> FALSE ],
               animationFrameId |-> [ g \in Generations |-> 0 ],
               frames |-> {}, nextFrame |-> 1,
               loops |-> << >>, energy |-> << >>,
               keStaging |-> [ g \in Generations |-> 0 ],
               peStaging |-> [ g \in Generations |-> 0 ],
               lastEnergyUpdate |-> 0,
               resetPc |-> "creating", resets |-> 0, clicks |-> 0,
               playEnabled |-> FALSE, ops |-> NoOps ]

\* a click on the play button
TogglePlay ==
  /\ probe.playEnabled
  /\ probe.visualizer # 0
  /\ probe.clicks < MaxClicks
  /\ \E v \in { probe.visualizer }, p \in { [probe EXCEPT !.ops = NoOps] } :
       IF p.isRunning[v]
       THEN /\ MayUpdateEnergy(p)
            /\ probe' = [updateEnergy(stop(p, v), "pause")
                           EXCEPT !.ops.kind = "pause", !.clicks = @ + 1]
       ELSE /\ MayStep(p, v)
            /\ probe' = [start(p, v) EXCEPT !.ops.kind = "play",
                                            !.clicks = @ + 1]
  /\ UNCHANGED << configVars, stateVars, ghostVars >>

\* a requested animation frame calls loop
AnimationFrame ==
  /\ \E f \in probe.frames :
       /\ probe.isRunning[f.viz] => MayStep(probe, f.viz)
       /\ probe' = [loop([probe EXCEPT !.ops = NoOps,
                                       !.frames = @ \ {f}], f.viz)
                      EXCEPT !.ops.kind = "frame"]
  /\ UNCHANGED << configVars, stateVars, ghostVars >>

\* loop resumes inside update(): after onSubmittedWorkDone readPositions
\* copies into the staging buffer and maps it; after the map loop calls
\* onStep and requests the next frame, whatever isRunning is by then
LoopResume ==
  /\ \E i \in 1 .. Len(probe.loops) :
       \E l \in { probe.loops[i] }, p \in { [probe EXCEPT !.ops = NoOps] } :
         IF l.pc = "workDone"
         THEN probe' =
                [p EXCEPT
                   !.loops = IF l.viz \in p.destroyed
                                \/ PositionsMapPending(p, l.viz)
                             THEN DropAt(@, i)
                             ELSE [@ EXCEPT ![i].pc = "map"],
                   !.ops.kind = "readPositions",
                   !.ops.readback = TRUE,
                   !.ops.resumed = TRUE,
                   !.ops.onDestroyed = l.viz \in p.destroyed,
                   !.ops.mapPending = PositionsMapPending(p, l.viz)]
         ELSE /\ p.currentStep[l.viz] - p.lastEnergyUpdate
                   >= EnergyUpdateInterval => MayUpdateEnergy(p)
              /\ probe' =
                   [RequestFrame(onStep([p EXCEPT !.loops = DropAt(@, i)],
                                        l.viz), l.viz)
                      EXCEPT !.ops.kind = "onStep", !.ops.resumed = TRUE]
  /\ UNCHANGED << configVars, stateVars, ghostVars >>

\* computeEnergy resumes: after waitForGPU KineticEnergy.compute maps its
\* staging buffer; after that map computeWithEnergy runs the pair kernel on
\* the particles as they are now, copies the energies and maps them; after
\* that map computeEnergy returns and updateEnergy shows the result
EnergyResume ==
  /\ \E i \in 1 .. Len(probe.energy) :
       \E e \in { probe.energy[i] }, p \in { [probe EXCEPT !.ops = NoOps] } :
         CASE e.pc = "keWorkDone" ->
                probe' =
                  [(IF e.sim \in p.destroyed \/ KEMapPending(p, e.sim)
                    THEN AfterUpdateEnergy(
                           [p EXCEPT !.energy = DropAt(@, i)], e.caller)
                    ELSE [p EXCEPT !.energy[i].pc = "keMap"])
                     EXCEPT
                       !.ops.kind = "keMap",
                       !.ops.readback = TRUE,
                       !.ops.resumed = TRUE,
                       !.ops.onDestroyed = e.sim \in p.destroyed,
                       !.ops.mapPending = KEMapPending(p, e.sim)]
           [] e.pc = "keMap" ->
                probe' =
                  [(IF PEMapPending(p, e.sim)
                    THEN AfterUpdateEnergy(
                           [p EXCEPT !.energy = DropAt(@, i)], e.caller)
                    ELSE [p EXCEPT
                            !.energy[i].pc = "peMap",
                            !.energy[i].kinetic = p.keStaging[e.sim],
                            !.peStaging[e.sim] = p.currentStep[e.sim]])
                     EXCEPT
                       !.ops.kind = "computeWithEnergy",
                       !.ops.dispatch = TRUE,
                       !.ops.readback = TRUE,
                       !.ops.resumed = TRUE,
                       !.ops.onDestroyed = e.sim \in p.destroyed,
                       !.ops.mapPending = PEMapPending(p, e.sim)]
           [] OTHER ->
                probe' =
                  [AfterUpdateEnergy(
                     [p EXCEPT
                        !.energy = DropAt(@, i),
                        !.lastEnergyUpdate = p.currentStep[p.simulation]],
                     e.caller)
                     EXCEPT
                       !.ops.kind = "energy",
                       !.ops.caller = e.caller,
                       !.ops.resumed = TRUE,
                       !.ops.kinetic = e.kinetic,
                       !.ops.potential = p.peStaging[e.sim]]
  /\ UNCHANGED << configVars, stateVars, ghostVars >>

\* a click on the reset button: resetSimulation up to its await of
\* createLJLiquid
ResetSimulation ==
  /\ probe.resetPc = "idle"
  /\ probe.resets < MaxResets
  /\ \E g \in { probe.simulation } :
       probe' = [DestroySimulation(stop([probe EXCEPT !.ops = NoOps], g), g)
                   EXCEPT !.lastEnergyUpdate = 0,
                          !.resetPc = "creating",
                          !.resets = @ + 1,
                          !.ops.kind = "reset"]
  /\ UNCHANGED << configVars, stateVars, ghostVars >>

\* createLJLiquid has resolved: the simulation and its visualizer replace
\* the destroyed ones and resetSimulation awaits visualizer.initialize
ResetCreated ==
  /\ probe.resetPc = "creating"
  /\ probe' = [probe EXCEPT
                 !.simulation = probe.resets + 1,
                 !.visualizer = probe.resets + 1,
                 !.resetPc = "initializing",
                 !.ops = [NoOps EXCEPT !.kind = "created"]]
  /\ UNCHANGED << configVars, stateVars, ghostVars >>

\* initialize has resolved: resetSimulation awaits updateEnergy
ResetInitialized ==
  /\ probe.resetPc = "initializing"
  /\ MayUpdateEnergy(probe)
  /\ probe' = [updateEnergy([probe EXCEPT !.ops = NoOps,
                                          !.resetPc = "energy"], "reset")
                 EXCEPT !.ops.kind = "initialized"]
  /\ UNCHANGED << configVars, stateVars, ghostVars >>

NextUI ==
  \/ TogglePlay
  \/ AnimationFrame
  \/ LoopResume
  \/ EnergyResume
  \/ ResetSimulation
  \/ ResetCreated
  \/ ResetInitialized

SpecUI == InitUI /\ [][NextUI]_vars

\* the loop chains of the visualizer that is running: its iterations
\* suspended in update() and its requested frames
ActiveChains(p, v) ==
  IF p.isRunning[v]
  THEN Cardinality({ i \in 1 .. Len(p.loops) : p.loops[i].viz = v })
         + Cardinality({ f \in p.frames : f.viz = v })
  ELSE 0

\* C36: the kinetic and the potential energy computeEnergy returns are
\* those of one and the same step.
C36_EnergyOfOneStep ==
  probe.ops.kind = "energy" => probe.ops.kinetic = probe.ops.potential

\* C37: at most one animation-loop chain is active, so one animation frame
\* issues at most stepsPerFrame steps.
C37_OneLoopChain ==
  \A v \in Generations : ActiveChains(probe, v) <= 1

\* C38: a handler that resumes after resetSimulation destroyed the
\* simulation issues no step, dispatch or readback on it.
C38_NothingOnDestroyed ==
  probe.ops.resumed => ~ probe.ops.onDestroyed

\* C39: at most one computeEnergy call is in flight, and no staging buffer
\* is copied into or mapped while a map on it is pending.
C39_OneEnergyInFlight ==
  /\ Len(probe.energy) <= 1
  /\ ~ probe.ops.mapPending
====
